---- MODULE Spec2Model ----
(***************************************************************************)
(* TimelineApp core: date parsing, event-field parsing, the CSV event      *)
(* loader and the compound-interest simulation, as state machines.         *)
(*                                                                         *)
(* Text is a sequence of one-character strings.  Every component has its   *)
(* own specification (SpecDate, SpecEventi, SpecLoad, SpecSim); the        *)
(* variables of the other components stay at their idle values.            *)
(***************************************************************************)
EXTENDS Integers, Sequences, FiniteSets, TLC

VARIABLES
    date_str,        \* parse_date: the argument (text)
    pd_pc,           \* parse_date: "call" | "done"
    pd_result,       \* parse_date: the returned value or the raised exception
    ev_txt,          \* parse_eventi_field: the cell text (sequence of lines)
    ev_kw,           \* parse_eventi_field: "absent" | "true" | "false", the default_is_dependent keyword
    ev_pc,           \* parse_eventi_field: "call" | "done"
    ev_result,       \* parse_eventi_field: [exc, out]
    columns,         \* load_events_csv: df.columns, the raw column names of the file
    df,              \* load_events_csv: the rows read from the file
    l_pc,            \* load_events_csv: "map" | "dedup" | "build" | "done"
    l_i,             \* load_events_csv: index of the next row / selected form
    selected_forms,  \* load_events_csv: insertion-ordered dict, as a sequence of [name, row, idx, submission]
    events,          \* load_events_csv: the events list
    l_exc,           \* load_events_csv: "none" or the exception that ended the call
    people,          \* load_events_csv: the people dict, a set of [name, info]
    sim_start,       \* simulate_compound: start date
    sim_p,           \* simulate_compound: CompoundParams
    sim_pc,          \* simulate_compound: "call" | "loop" | "done" | "modified" (the caller has changed the returned frame)
    sim_exc,         \* simulate_compound: "none" | "ValueError"
    sim_index,       \* simulate_compound: the dates of the series
    contrib_increment, \* simulate_compound: per-day contribution
    values,          \* simulate_compound: values[]
    contribs,        \* simulate_compound: contribs[]
    infl_values,     \* simulate_compound: infl_values[]
    real_values,     \* simulate_compound: real_values[] (floats: [k, n, d])
    sim_frames,      \* simulate_compound: the DataFrame objects built so far, by reference (index)
    sim_cache,       \* simulate_compound: the lru_cache, a set of [start, p, ref]
    sim_ret,         \* simulate_compound: reference of the frame the last call returned (0: none)
    sim_calls,       \* simulate_compound: number of calls made by the caller
    sim_failed,      \* simulate_compound: number of those calls that raised
    cat_arg,         \* _norm_cat: the argument of the first call (text)
    cat_results,     \* _norm_cat: the values returned so far, each call taking the previous result
    fc_base,         \* forecast_cagrx_from_yfinance: base_cagr (rates are in units of 0.00001)
    fc_z,            \* forecast_cagrx_from_yfinance: <<z_tnx, z_vix, z_dxy>>, in standard deviations
    fc_shift,        \* forecast_cagrx_from_yfinance: [up, down], max_upshift and max_downshift
    fc_pc,           \* forecast_cagrx_from_yfinance: "macro" | "adjusted" | "done"
    fc_adj,          \* forecast_cagrx_from_yfinance: adj
    fc_g,            \* forecast_cagrx_from_yfinance: g
    h_hist,          \* forecast_from_history: hist, [none, obs]: None, or a sequence of [t, price, nan]
    h_future,        \* forecast_from_history: future_index, a sequence of day ordinals
    h_lookback,      \* forecast_from_history: lookback_years
    h_pc,            \* forecast_from_history: "call" | "estimated" | "done"
    h_est,           \* _estimate_cagr: [g, years, w_first, w_last, windowed] of the last call
    h_out,           \* forecast_from_history: [exc, vals], the returned series or the exception
    m_path,          \* load_table: path, "" | "missing" | "file"
    m_file,          \* load_table: the file, [bom, lines]; a line is a sequence of fields
    m_fails,         \* load_table: how many of the open/read attempts fail before one succeeds
    m_pc,            \* load_table: "call" | "open" | "parse" | "done"
    m_enc,           \* load_table: position in encodings of the next attempt
    m_last_err,      \* load_table: last_err, "none" or the error of an attempt
    m_lines,         \* load_table: lines, [none, enc, rows]
    m_i,             \* load_table: number of lines handled by the loop
    m_table,         \* load_table: table, a set of [age, years, line] (line: index of the source line)
    m_exc            \* load_table: "none" or the exception raised

dateVars  == <<date_str, pd_pc, pd_result>>
eventiVars == <<ev_txt, ev_kw, ev_pc, ev_result>>
loadVars  == <<columns, df, l_pc, l_i, selected_forms, events, l_exc, people>>
simVars   == <<sim_start, sim_p, sim_pc, sim_exc, sim_index, contrib_increment,
               values, contribs, infl_values, real_values,
               sim_frames, sim_cache, sim_ret, sim_calls, sim_failed>>
cacheVars == <<sim_frames, sim_cache, sim_ret, sim_calls, sim_failed>>
catVars   == <<cat_arg, cat_results>>
fcVars    == <<fc_base, fc_z, fc_shift, fc_pc, fc_adj, fc_g>>
histVars  == <<h_hist, h_future, h_lookback, h_pc, h_est, h_out>>
mortVars  == <<m_path, m_file, m_fails, m_pc, m_enc, m_last_err, m_lines, m_i, m_table, m_exc>>
vars == <<dateVars, eventiVars, loadVars, simVars, catVars, fcVars, histVars, mortVars>>

(***************************************************************************)
(* Bounds                                                                  *)
(***************************************************************************)
\* largest day/month token value enumerated for parse_date
MaxDM == 32
\* largest number of rows of the CSV table
MaxRows == 3
\* largest number of calls of simulate_compound with the same arguments
MaxCalls == 2
\* largest horizon (years) of the simulation
MaxYears == 1

(***************************************************************************)
(* Calendar (datetime / date of the Python standard library)               *)
(***************************************************************************)
NoDate == [k |-> "None", y |-> 0, m |-> 0, d |-> 0]
RaisedValueError == [k |-> "ValueError", y |-> 0, m |-> 0, d |-> 0]
MkDate(y, m, d) == [k |-> "date", y |-> y, m |-> m, d |-> d]

IsLeap(y) == (y % 4 = 0) /\ ((y % 100 # 0) \/ (y % 400 = 0))

DaysInMonth(y, m) ==
    IF m \in {4, 6, 9, 11} THEN 30
    ELSE IF m = 2 THEN (IF IsLeap(y) THEN 29 ELSE 28)
    ELSE 31

\* datetime(y, m, d) raises ValueError unless the triple is a calendar date
ValidDate(y, m, d) ==
    /\ y >= 1 /\ y <= 9999
    /\ m >= 1 /\ m <= 12
    /\ d >= 1 /\ d <= DaysInMonth(y, m)

\* key used to order datetimes
DateKey(dt) == dt.y * 10000 + dt.m * 100 + dt.d

(***************************************************************************)
(* Text helpers (str.strip, str.isdigit, int, re.split)                    *)
(***************************************************************************)
Digits == {"0", "1", "2", "3", "4", "5", "6", "7", "8", "9"}
DigitVal == [c \in Digits |->
    CASE c = "0" -> 0 [] c = "1" -> 1 [] c = "2" -> 2 [] c = "3" -> 3
      [] c = "4" -> 4 [] c = "5" -> 5 [] c = "6" -> 6 [] c = "7" -> 7
      [] c = "8" -> 8 [] c = "9" -> 9]
\* characters for which str.isdigit() is true: decimal digits and
\* digit-like characters such as superscript two ("sup2")
IsdigitChars == Digits \cup {"sup2"}
DateSeps == {"/", "-"}

RECURSIVE LStrip(_)
LStrip(s) == IF s # <<>> /\ Head(s) = " " THEN LStrip(Tail(s)) ELSE s
RECURSIVE RStrip(_)
RStrip(s) == IF s # <<>> /\ s[Len(s)] = " " THEN RStrip(SubSeq(s, 1, Len(s) - 1)) ELSE s
Strip(s) == RStrip(LStrip(s))

isdigit(p) == Len(p) > 0 /\ \A i \in 1..Len(p) : p[i] \in IsdigitChars
IntOk(p) == \A i \in 1..Len(p) : p[i] \in Digits
RECURSIVE IntAcc(_, _)
IntAcc(p, acc) == IF p = <<>> THEN acc ELSE IntAcc(Tail(p), acc * 10 + DigitVal[Head(p)])
int(p) == IntAcc(p, 0)

RECURSIVE SplitAcc(_, _, _)
SplitAcc(s, cur, acc) ==
    IF s = <<>> THEN Append(acc, cur)
    ELSE IF Head(s) \in DateSeps THEN SplitAcc(Tail(s), <<>>, Append(acc, cur))
    ELSE SplitAcc(Tail(s), Append(cur, Head(s)), acc)
\* re.split(r"[\/-]", s)
SplitDate(s) == SplitAcc(s, <<>>, <<>>)

(***************************************************************************)
(* parse_date                                                              *)
(***************************************************************************)
\* mutant: month-first when the last token is the year
DateFieldsMonthFirst(a, b, c) ==
    IF c > 999 THEN [ok |-> TRUE, y |-> c, m |-> a, d |-> b]
    ELSE IF a > 999 THEN [ok |-> TRUE, y |-> a, m |-> b, d |-> c]
    ELSE IF 1 <= b /\ b <= 12 THEN [ok |-> TRUE, y |-> c, m |-> b, d |-> a]
    ELSE [ok |-> FALSE, y |-> 0, m |-> 0, d |-> 0]

\* mutant: the year-first test is made on the number of digits of the first token
\* (not expressible on the integer alone: the first branch is dropped instead,
\* so that a year-first text is read day-first)
DateFieldsNoYearFirst(a, b, c) ==
    IF c > 999 THEN [ok |-> TRUE, y |-> c, m |-> b, d |-> a]
    ELSE IF 1 <= b /\ b <= 12 THEN [ok |-> TRUE, y |-> c, m |-> b, d |-> a]
    ELSE [ok |-> FALSE, y |-> 0, m |-> 0, d |-> 0]

\* the choice of (y, m, d) among the integers a, b, c
DateFields(a, b, c) ==
    IF c > 999 THEN [ok |-> TRUE, y |-> c, m |-> b, d |-> a]
    ELSE IF a > 999 THEN [ok |-> TRUE, y |-> a, m |-> b, d |-> c]
    ELSE IF 1 <= b /\ b <= 12 THEN [ok |-> TRUE, y |-> c, m |-> b, d |-> a]
    ELSE [ok |-> FALSE, y |-> 0, m |-> 0, d |-> 0]

\* return datetime(y, m, d), None when the constructor raises
DateFromFields(f) ==
    IF f.ok /\ ValidDate(f.y, f.m, f.d) THEN MkDate(f.y, f.m, f.d) ELSE NoDate

\* parse_date after the split: the checks on parts, a, b, c = map(int, parts)
\* (outside the try block) and the try block
DateFromParts(parts) ==
    IF Len(parts) # 3 \/ \E i \in 1..Len(parts) : ~isdigit(parts[i])
    THEN NoDate
    ELSE IF \E i \in 1..3 : ~IntOk(parts[i])
    THEN RaisedValueError
    ELSE DateFromFields(DateFields(int(parts[1]), int(parts[2]), int(parts[3])))

parse_date(s0) ==
    IF s0 = <<>> THEN NoDate ELSE DateFromParts(SplitDate(Strip(s0)))

(***************************************************************************)
(* Idle values of the components a specification does not run              *)
(***************************************************************************)
NoParams == [initial |-> 0, monthly |-> 0, annual_rate |-> 0, mgmt_fee_annual |-> 0,
             inflation_rate |-> 0, years |-> 0]
IdleDate == date_str = <<>> /\ pd_pc = "idle" /\ pd_result = NoDate
IdleEventi == ev_txt = <<>> /\ ev_kw = "absent" /\ ev_pc = "idle"
              /\ ev_result = [exc |-> "none", out |-> <<>>]
IdleLoad == columns = <<>> /\ df = <<>> /\ l_pc = "idle" /\ l_i = 0 /\ selected_forms = <<>>
            /\ events = <<>> /\ l_exc = "none" /\ people = {}
IdleCat == cat_arg = <<>> /\ cat_results = <<>>
IdleForecast == fc_base = 0 /\ fc_z = <<0, 0, 0>> /\ fc_shift = [up |-> 0, down |-> 0]
                /\ fc_pc = "idle" /\ fc_adj = 0 /\ fc_g = 0
NoEstimate == [g |-> [k |-> "zero"], years |-> 0, w_first |-> 0, w_last |-> 0, windowed |-> FALSE]
IdleHist == h_hist = [none |-> FALSE, obs |-> <<>>] /\ h_future = <<>> /\ h_lookback = 0 /\ h_pc = "idle"
            /\ h_est = NoEstimate /\ h_out = [exc |-> "none", vals |-> <<>>]
NoLines == [none |-> TRUE, enc |-> 0, rows |-> <<>>]
IdleMort == m_path = "" /\ m_file = [bom |-> FALSE, lines |-> <<>>] /\ m_fails = 0
            /\ m_pc = "idle" /\ m_enc = 0 /\ m_last_err = "none" /\ m_lines = NoLines
            /\ m_i = 0 /\ m_table = {} /\ m_exc = "none"
IdleSim == sim_start = NoDate /\ sim_p = NoParams /\ sim_pc = "idle" /\ sim_exc = "none"
           /\ sim_index = <<>> /\ contrib_increment = <<>> /\ values = <<>>
           /\ contribs = <<>> /\ infl_values = <<>> /\ real_values = <<>>
           /\ sim_frames = <<>> /\ sim_cache = {} /\ sim_ret = 0 /\ sim_calls = 0
           /\ sim_failed = 0

(***************************************************************************)
(* SpecDate: parse_date applied to bounded texts                           *)
(***************************************************************************)
DigitChar == [i \in 0..9 |->
    CASE i = 0 -> "0" [] i = 1 -> "1" [] i = 2 -> "2" [] i = 3 -> "3"
      [] i = 4 -> "4" [] i = 5 -> "5" [] i = 6 -> "6" [] i = 7 -> "7"
      [] i = 8 -> "8" [] i = 9 -> "9"]
\* decimal text of a natural number below 100
Dec(v) == IF v < 10 THEN <<DigitChar[v]>> ELSE <<DigitChar[v \div 10], DigitChar[v % 10]>>

YearTokens == { <<"2", "0", "2", "3">>, <<"2", "0", "2", "4">>, <<"2", "0", "2", "8">>,
                <<"0", "0", "1", "2">>, <<"2", "4">> }
PaddedTokens == { <<"0">> \o Dec(v) : v \in {1, 5, 6} }
TokenSet == { Dec(v) : v \in 0..MaxDM } \cup PaddedTokens \cup YearTokens

JoinDate(a, b, c, sep) == a \o <<sep>> \o b \o <<sep>> \o c

\* texts that are not three digit tokens
OddTexts == { <<>>,
              <<" ", "0", "5", "/", "0", "6", "/", "2", "0", "2", "4", " ">>,
              <<"0", "5", "/", "2", "0", "2", "4">>,
              <<"1", "/", "2", "/", "3", "/", "2", "0", "2", "4">>,
              <<"1", "/", "/", "2", "0", "2", "4">>,
              <<"x", "/", "0", "6", "/", "2", "0", "2", "4">>,
              <<"0", " ", "5", "/", "0", "6", "/", "2", "0", "2", "4">>,
              <<"sup2", "/", "0", "6", "/", "2", "0", "2", "4">> }

DateTexts == { JoinDate(a, b, c, sep) : a \in TokenSet, b \in TokenSet, c \in TokenSet,
                                        sep \in DateSeps } \cup OddTexts

InitDate ==
    /\ date_str \in DateTexts
    /\ pd_pc = "call"
    /\ pd_result = NoDate
    /\ IdleEventi /\ IdleLoad /\ IdleSim /\ IdleCat /\ IdleForecast /\ IdleHist
    /\ IdleMort

ParseDate ==
    /\ pd_pc = "call"
    /\ pd_result' = parse_date(date_str)
    /\ pd_pc' = "done"
    /\ UNCHANGED <<date_str, eventiVars, loadVars, simVars, catVars, fcVars, histVars, mortVars>>

NextDate == ParseDate
SpecDate == InitDate /\ [][NextDate]_vars

\* the tokens of the argument, for the statements below
ArgParts == SplitDate(Strip(date_str))
ThreeNumbers == Len(ArgParts) = 3 /\ \A i \in 1..3 : Len(ArgParts[i]) > 0 /\ IntOk(ArgParts[i])
ArgA == int(ArgParts[1])
ArgB == int(ArgParts[2])
ArgC == int(ArgParts[3])
FourDigitYear(p) == Len(p) = 4 /\ int(p) > 999
DateOrNone(y, m, d) == IF ValidDate(y, m, d) THEN MkDate(y, m, d) ELSE NoDate

C8_DayFirstThenMonthFirst ==
    (pd_pc = "done" /\ ThreeNumbers /\ FourDigitYear(ArgParts[3]))
        => /\ (ArgB >= 1 /\ ArgB <= 12) => pd_result = DateOrNone(ArgC, ArgB, ArgA)
           /\ (ArgB > 12 /\ ArgA >= 1 /\ ArgA <= 12) => pd_result = DateOrNone(ArgC, ArgA, ArgB)

\* C9 (as stated): a first token of more than 3 digits is always read as the
\* year of YYYY-M-D, leading zeros included.
C9_AsStated ==
    (pd_pc = "done" /\ ThreeNumbers /\ Len(ArgParts[1]) > 3)
        => pd_result = DateOrNone(ArgA, ArgB, ArgC)

\* C9 (amended): a first token whose numeric value is above 999 is read as the
\* year of YYYY-M-D (None when that is not a calendar date); a first token with
\* leading zeros such as "0012" counts by its value and is not a year.
C9_YearFirstByValue ==
    (pd_pc = "done" /\ ThreeNumbers /\ ArgA > 999)
        => pd_result = DateOrNone(ArgA, ArgB, ArgC)

C9_Witness ==
    /\ pd_pc = "done" /\ ThreeNumbers
    /\ ArgA = 2024 /\ ArgB = 1 /\ ArgC = 5
    /\ pd_result = MkDate(2024, 1, 5)

\* C10: for a 4-digit year c, a > 12 and (day a, month b, year c) a calendar
\* date, parse_date("a/b/c") and parse_date("a-b-c") return day a, month b, year c.
C10_DayFirstWhenFirstAbove12 ==
    (pd_pc = "done" /\ ThreeNumbers /\ FourDigitYear(ArgParts[3])
       /\ ArgA > 12 /\ ValidDate(ArgC, ArgB, ArgA))
        => pd_result = MkDate(ArgC, ArgB, ArgA)

C10_Witness ==
    /\ pd_pc = "done" /\ ThreeNumbers
    /\ date_str[Len(ArgParts[1]) + 1] = "-"
    /\ ArgA = 29 /\ ArgB = 2 /\ ArgC = 2024
    /\ pd_result = MkDate(2024, 2, 29)

\* a token with a character that is not one of the decimal digits 0..9
NonDigitToken(p) == p = <<>> \/ \E i \in 1..Len(p) : p[i] \notin Digits

\* C11: parse_date never raises; it returns None for empty input, for a text
\* that does not split into exactly three tokens, for a non-digit token and for
\* a day/month combination that is not a calendar date; a returned date is a
\* calendar date whose day and month are tokens of the text (nothing wraps).
C11_NeverRaises ==
    (pd_pc = "done")
        => /\ pd_result.k # "ValueError"
           /\ (date_str = <<>> \/ Len(ArgParts) # 3
                 \/ \E i \in 1..Len(ArgParts) : NonDigitToken(ArgParts[i]))
                 => pd_result = NoDate
           /\ (ThreeNumbers /\ ~ValidDate(ArgC, ArgB, ArgA) /\ ~ValidDate(ArgA, ArgB, ArgC))
                 => pd_result = NoDate
           /\ (pd_result.k = "date")
                 => /\ ValidDate(pd_result.y, pd_result.m, pd_result.d)
                    /\ pd_result.m = ArgB
                    /\ <<pd_result.y, pd_result.d>> \in {<<ArgC, ArgA>>, <<ArgA, ArgC>>}

(***************************************************************************)
(* simulate_compound                                                       *)
(*                                                                         *)
(* Money is in whole euros.  Annual rates are drawn from the rates whose   *)
(* daily equivalent (1+r)^(1/365) is exact: 0 (daily factor 1) and -1      *)
(* (daily factor 0).  A float is [k, n, d]: the number n/d, nan or inf.    *)
(***************************************************************************)
FNum(n, d) == [k |-> "num", n |-> n, d |-> d]
FNaN == [k |-> "nan", n |-> 0, d |-> 1]
FInf == [k |-> "inf", n |-> 0, d |-> 1]

\* x ** (1.0 / 365.0) for x in {0, 1}
Root365(x) == x

\* date.toordinal()
DaysBeforeYear(y) == (y - 1) * 365 + ((y - 1) \div 4) - ((y - 1) \div 100) + ((y - 1) \div 400)
RECURSIVE DaysBeforeMonth(_, _)
DaysBeforeMonth(y, m) == IF m = 1 THEN 0 ELSE DaysBeforeMonth(y, m - 1) + DaysInMonth(y, m - 1)
Ordinal(dt) == DaysBeforeYear(dt.y) + DaysBeforeMonth(dt.y, dt.m) + dt.d

\* date + timedelta(days=1)
NextDay(dt) ==
    IF dt.d < DaysInMonth(dt.y, dt.m) THEN MkDate(dt.y, dt.m, dt.d + 1)
    ELSE IF dt.m < 12 THEN MkDate(dt.y, dt.m + 1, 1)
    ELSE MkDate(dt.y + 1, 1, 1)

Min(a, b) == IF a <= b THEN a ELSE b

\* date.fromordinal(n), for the years yLo..yHi
FromOrdinal(n, yLo, yHi) ==
    LET y == CHOOSE yy \in yLo..yHi : DaysBeforeYear(yy) < n /\ n <= DaysBeforeYear(yy + 1)
        r == n - DaysBeforeYear(y)
        m == CHOOSE mm \in 1..12 :
                 DaysBeforeMonth(y, mm) < r /\ r <= DaysBeforeMonth(y, mm) + DaysInMonth(y, mm)
    IN MkDate(y, m, r - DaysBeforeMonth(y, m))

\* _date_range_daily with range(n): the end date left out
date_range_daily_open(start, years) ==
    LET end == MkDate(start.y + years, start.m, Min(start.d, 28))
        n == Ordinal(end) - Ordinal(start)
    IN [i \in 1..n |-> FromOrdinal(Ordinal(start) + (i - 1), start.y, start.y + years)]

\* _date_range_daily(start, years): [start + timedelta(days=i) for i in range(n + 1)]
date_range_daily(start, years) ==
    LET end == MkDate(start.y + years, start.m, Min(start.d, 28))
        n == Ordinal(end) - Ordinal(start)
    IN [i \in 1..(n + 1) |-> FromOrdinal(Ordinal(start) + (i - 1), start.y, start.y + years)]

\* mutant: the contribution lands on the 2nd of the month
ContribIncrementSecondDay(index, monthly) ==
    IF monthly > 0
    THEN [i \in 1..Len(index) |-> IF index[i].d = 2 THEN monthly ELSE 0]
    ELSE [i \in 1..Len(index) |-> 0]

\* np.where(index.day == 1, monthly, 0.0), or zeros when monthly <= 0
ContribIncrement(index, monthly) ==
    IF monthly > 0
    THEN [i \in 1..Len(index) |-> IF index[i].d = 1 THEN monthly ELSE 0]
    ELSE [i \in 1..Len(index) |-> 0]

\* growth = 1 + daily_net, daily_net = daily_gross - daily_mgmt (mgmt_fee_annual = 0 here)
Growth(p) == 1 + ((Root365(1 + p.annual_rate) - 1) - (p.mgmt_fee_annual \div 365))
\* infl_growth = 1 + daily_infl
InflGrowth(p) == 1 + (Root365(1 + p.inflation_rate) - 1)

\* infl_values / infl_values[0], element i (numpy float division)
InflFactorRaw(iv, i) ==
    IF iv[1] = 0
    THEN (IF iv[i] = 0 THEN FNaN ELSE FInf)
    ELSE FNum(iv[i], iv[1])
\* np.where(infl_factor <= 0, 1.0, infl_factor)
InflFactor(iv, i) ==
    LET f == InflFactorRaw(iv, i)
    IN IF f.k = "num" /\ f.n <= 0 THEN FNum(1, 1) ELSE f
\* values / infl_factor, element i
RealValue(vs, iv, i) ==
    LET f == InflFactor(iv, i)
    IN IF f.k = "nan" THEN FNaN
       ELSE IF f.k = "inf" THEN FNum(0, 1)
       ELSE FNum(vs[i] * f.d, f.n)

Starts == { MkDate(2024, 1, 1), MkDate(2024, 1, 15), MkDate(2024, 2, 29), MkDate(2023, 12, 31) }
Initials == {0, 1000}
Monthlies == {0, 300}
AnnualRates == {0, -1}
InflationRates == {0, -1}
ParamSets == [initial : Initials, monthly : Monthlies, annual_rate : AnnualRates,
              mgmt_fee_annual : {0}, inflation_rate : InflationRates, years : (-1)..MaxYears]

InitSim ==
    /\ sim_start \in Starts
    /\ sim_p \in ParamSets
    /\ sim_pc = "call"
    /\ sim_exc = "none"
    /\ sim_index = <<>> /\ contrib_increment = <<>> /\ values = <<>>
    /\ contribs = <<>> /\ infl_values = <<>> /\ real_values = <<>>
    /\ sim_frames = <<>> /\ sim_cache = {} /\ sim_ret = 0 /\ sim_calls = 1
    /\ sim_failed = 0
    /\ IdleDate /\ IdleEventi /\ IdleLoad /\ IdleCat /\ IdleForecast /\ IdleHist
    /\ IdleMort

\* "if p.years <= 0" with only the negative horizons rejected
YearsRejectedNegativeOnly(p) == p.years < 0

\* if p.years <= 0
YearsRejected(p) == p.years <= 0

\* the check of years: raise ValueError("years must be > 0"); lru_cache stores
\* nothing for a call that raises
SimReject ==
    /\ sim_pc = "call"
    /\ YearsRejected(sim_p)
    /\ sim_exc' = "ValueError"
    /\ sim_failed' = sim_failed + 1
    /\ sim_pc' = "done"
    /\ UNCHANGED <<sim_start, sim_p, sim_index, contrib_increment, values, contribs,
                   infl_values, real_values, sim_frames, sim_cache, sim_ret, sim_calls,
                   dateVars, eventiVars, loadVars, catVars, fcVars, histVars, mortVars>>

\* from the rates to the seeding of day 0; values[0] = ... on an empty array
\* is an IndexError
SimStart ==
    /\ sim_pc = "call"
    /\ ~YearsRejected(sim_p)
    /\ LET index == date_range_daily(sim_start, sim_p.years)
           inc == ContribIncrement(index, sim_p.monthly)
       IN /\ sim_index' = index
          /\ contrib_increment' = inc
          /\ IF index = <<>>
             THEN /\ sim_exc' = "IndexError"
                  /\ sim_failed' = sim_failed + 1
                  /\ sim_pc' = "done"
                  /\ UNCHANGED <<values, contribs, infl_values>>
             ELSE /\ values' = <<sim_p.initial + inc[1]>>
                  /\ contribs' = <<sim_p.initial + inc[1]>>
                  /\ infl_values' = <<sim_p.initial + inc[1]>>
                  /\ sim_pc' = "loop"
                  /\ UNCHANGED <<sim_exc, sim_failed>>
    /\ UNCHANGED <<sim_start, sim_p, real_values, sim_frames, sim_cache, sim_ret, sim_calls,
                   dateVars, eventiVars, loadVars, catVars, fcVars, histVars, mortVars>>

\* the loop body with the contributions compounded like the value
LoopBodyContribCompounded(v, c, iv, inc, p) ==
    [value |-> v * Growth(p) + inc,
     contrib |-> c * Growth(p) + inc,
     inflation_value |-> iv * InflGrowth(p) + inc]

\* the body of "for i in range(1, n_days)": the three entries of day i from
\* those of day i - 1 and contrib_increment[i]
LoopBody(v, c, iv, inc, p) ==
    [value |-> v * Growth(p) + inc,
     contrib |-> c + inc,
     inflation_value |-> iv * InflGrowth(p) + inc]

\* one iteration of the loop, day i (1-based: Len(values) + 1)
SimDay ==
    /\ sim_pc = "loop"
    /\ Len(values) < Len(sim_index)
    /\ LET i == Len(values) + 1
           day == LoopBody(values[i - 1], contribs[i - 1], infl_values[i - 1],
                           contrib_increment[i], sim_p)
       IN /\ values' = Append(values, day.value)
          /\ contribs' = Append(contribs, day.contrib)
          /\ infl_values' = Append(infl_values, day.inflation_value)
    /\ UNCHANGED <<sim_start, sim_p, sim_pc, sim_exc, sim_index, contrib_increment,
                   real_values, cacheVars, dateVars, eventiVars, loadVars, catVars, fcVars, histVars, mortVars>>

\* pd.DataFrame({...}, index=index): a new object holding copies of the arrays
\* (net_rate is the constant daily_net)
Frame(index, vs, cs, net, iv, rv) ==
    [index |-> index, value |-> vs, contrib |-> cs, net_rate |-> net,
     inflation_value |-> iv, real_value |-> rv]

\* @lru_cache(maxsize=64): the entry stored for the arguments, {} when none
CacheHits(cache, start, p) == { e \in cache : e.start = start /\ e.p = p }

\* the inflation factor, the real values and the returned frame; lru_cache
\* stores the returned object under (start, p)
SimFinish ==
    /\ sim_pc = "loop"
    /\ Len(values) = Len(sim_index)
    /\ real_values' = [i \in 1..Len(values) |-> RealValue(values, infl_values, i)]
    /\ sim_frames' = Append(sim_frames,
                            Frame(sim_index, values, contribs, Growth(sim_p) - 1, infl_values,
                                  [i \in 1..Len(values) |-> RealValue(values, infl_values, i)]))
    /\ sim_cache' = sim_cache \cup { [start |-> sim_start, p |-> sim_p,
                                       ref |-> Len(sim_frames) + 1] }
    /\ sim_ret' = Len(sim_frames) + 1
    /\ sim_pc' = "done"
    /\ UNCHANGED <<sim_start, sim_p, sim_exc, sim_index, contrib_increment, values,
                   contribs, infl_values, sim_calls, sim_failed, dateVars, eventiVars,
                   loadVars, catVars, fcVars, histVars, mortVars>>

\* what a caller does to the frame it was given: df["value"] = 0.0, or
\* df.drop(df.index, inplace=True)
Modifications == {"zero_value", "drop_rows"}
Modified(frame, how) ==
    IF how = "zero_value"
    THEN [frame EXCEPT !.value = [i \in 1..Len(frame.value) |-> 0]]
    ELSE [frame EXCEPT !.index = <<>>, !.value = <<>>, !.contrib = <<>>,
                       !.inflation_value = <<>>, !.real_value = <<>>]

\* the caller changes, in place, the frame the last call returned: the object
\* is the one the cache holds
CallerModifies ==
    /\ sim_pc = "done" /\ sim_exc = "none"
    /\ \E how \in Modifications :
          sim_frames' = [sim_frames EXCEPT ![sim_ret] = Modified(@, how)]
    /\ sim_pc' = "modified"
    /\ UNCHANGED <<sim_start, sim_p, sim_exc, sim_index, contrib_increment, values, contribs,
                   infl_values, real_values, sim_cache, sim_ret, sim_calls, sim_failed,
                   dateVars, eventiVars, loadVars, catVars, fcVars, histVars, mortVars>>

\* a further call with the same arguments, answered by the lru_cache wrapper
\* when it holds an entry for them
SimCallHit ==
    /\ sim_pc \in {"done", "modified"}
    /\ sim_calls < MaxCalls
    /\ CacheHits(sim_cache, sim_start, sim_p) # {}
    /\ sim_ret' = (CHOOSE e \in CacheHits(sim_cache, sim_start, sim_p) : TRUE).ref
    /\ sim_calls' = sim_calls + 1
    /\ sim_pc' = "done"
    /\ UNCHANGED <<sim_start, sim_p, sim_exc, sim_index, contrib_increment, values, contribs,
                   infl_values, real_values, sim_frames, sim_cache, sim_failed, dateVars,
                   eventiVars, loadVars, catVars, fcVars, histVars, mortVars>>

\* a further call when the cache has no entry for its arguments (a call that
\* raised stored nothing): the body runs again.  The caller repeats the
\* arguments or corrects the horizon to one year.
SimCallMiss ==
    /\ sim_pc \in {"done", "modified"}
    /\ sim_calls < MaxCalls
    /\ CacheHits(sim_cache, sim_start, sim_p) = {}
    /\ \E y \in {sim_p.years, 1} : sim_p' = [sim_p EXCEPT !.years = y]
    /\ sim_calls' = sim_calls + 1
    /\ sim_pc' = "call"
    /\ sim_exc' = "none"
    /\ sim_ret' = 0
    /\ sim_index' = <<>> /\ contrib_increment' = <<>> /\ values' = <<>>
    /\ contribs' = <<>> /\ infl_values' = <<>> /\ real_values' = <<>>
    /\ UNCHANGED <<sim_start, sim_frames, sim_cache, sim_failed, dateVars, eventiVars,
                   loadVars, catVars, fcVars, histVars, mortVars>>

NextSim == SimReject \/ SimStart \/ SimDay \/ SimFinish \/ CallerModifies \/ SimCallHit
              \/ SimCallMiss
SpecSim == InitSim /\ [][NextSim]_vars

FloatEq(f, v) == f.k = "num" /\ f.n = v * f.d
\* number of first-of-month days among the first t days of the series
FirstsUpTo(t) == Cardinality({ i \in 1..t : sim_index[i].d = 1 })

\* C5: with inflation_rate = 0 the series has real_value[t] = value[t] on every day.
C5_RealEqualsValue ==
    (sim_pc = "done" /\ sim_exc = "none" /\ sim_p.inflation_rate = 0)
        => \A t \in 1..Len(values) : FloatEq(real_values[t], values[t])

\* C6: the monthly contribution is added on exactly the days whose day-of-month
\* is 1 (day 0 included) and on no other day; with annual_rate = 0 and
\* mgmt_fee_annual = 0, value[t] = contrib[t] = initial + monthly * (number of
\* first-of-month days in [start, t]).  Every prefix of the series is a state
\* of the loop, so the last day written is checked in every state.
C6_ContributionOnFirstOfMonth ==
    (sim_pc \in {"loop", "done"} /\ sim_exc = "none")
        => LET t == Len(values)
           IN /\ t >= 1
              /\ contrib_increment[t] = (IF sim_index[t].d = 1 THEN sim_p.monthly ELSE 0)
              /\ t > 1 => contribs[t] - contribs[t - 1] = contrib_increment[t]
              /\ contribs[t] = sim_p.initial + sim_p.monthly * FirstsUpTo(t)
              /\ (sim_p.annual_rate = 0 /\ sim_p.mgmt_fee_annual = 0) => values[t] = contribs[t]
              /\ (sim_pc = "done" /\ sim_p.annual_rate = 0 /\ sim_p.mgmt_fee_annual = 0)
                    => \A u \in 1..t : values[u] = contribs[u]

C6_Witness ==
    /\ sim_pc = "done" /\ sim_exc = "none"
    /\ sim_start = MkDate(2024, 1, 1)
    /\ sim_p.initial = 1000 /\ sim_p.monthly = 300 /\ sim_p.annual_rate = 0
    /\ values[1] = 1300 /\ values[31] = 1300 /\ values[32] = 1600
    /\ contribs[32] = 1600

\* the frame a fresh run of the body builds from (sim_start, sim_p): the
\* arrays of the last run, which had these arguments
FreshFrame == Frame(sim_index, values, contribs, Growth(sim_p) - 1, infl_values, real_values)

\* C19: every call simulate_compound(start, p) returns a series equal to a
\* fresh computation from (start, p), also when an earlier call with the same
\* arguments was made and the caller changed the series it returned.
C19_NoHiddenState ==
    (sim_pc = "done" /\ sim_exc = "none") => sim_frames[sim_ret] = FreshFrame

\* C21: a call with years <= 0 ends in ValueError and produces no series,
\* also when it is repeated; nothing is cached for it, and the first call
\* with a valid horizon after it returns the series computed from its own
\* arguments.
C21_InvalidYearsRejected ==
    /\ (sim_p.years <= 0) => sim_pc \in {"call", "done"}
    /\ (sim_pc = "done" /\ sim_p.years <= 0)
          => /\ sim_exc = "ValueError"
             /\ sim_ret = 0 /\ sim_frames = <<>> /\ sim_cache = {}
             /\ sim_failed = sim_calls
    /\ (sim_pc = "done" /\ sim_p.years > 0 /\ sim_failed > 0 /\ sim_calls = sim_failed + 1)
          => /\ sim_exc = "none"
             /\ sim_frames = << Frame(sim_index, values, contribs, Growth(sim_p) - 1,
                                      infl_values, real_values) >>
             /\ sim_ret = 1
             /\ Len(values) = Len(date_range_daily(sim_start, sim_p.years))

\* years = -1 rejected twice in a row
C21_Witness ==
    /\ sim_pc = "done" /\ sim_exc = "ValueError"
    /\ sim_p.years = -1
    /\ sim_calls = 2 /\ sim_failed = 2

\* years = 0 rejected, then the same arguments with years = 1 give a series
C21_WitnessRecovered ==
    /\ sim_pc = "done" /\ sim_exc = "none"
    /\ sim_p.years = 1
    /\ sim_calls = 2 /\ sim_failed = 1
    /\ sim_ret = 1 /\ Len(sim_frames[1].value) >= 365

\* the end date the claim names: (start.year + years, start.month, min(start.day, 28))
ClampedEnd == MkDate(sim_start.y + sim_p.years, sim_start.m,
                     IF sim_start.d < 28 THEN sim_start.d ELSE 28)

\* C22: for years > 0 the series is indexed by consecutive calendar days, from
\* start to (start.year + years, start.month, min(start.day, 28)); its length
\* is the day difference plus one and at least 1.  Checked when the index has
\* just been built and when the frame is returned.
C22_ConsecutiveDays ==
    /\ ((sim_pc = "loop" /\ Len(values) = 1) \/ (sim_pc = "done" /\ sim_p.years > 0))
          => /\ sim_exc = "none"
             /\ Len(sim_index) >= 1
             /\ Len(sim_index) = Ordinal(ClampedEnd) - Ordinal(sim_start) + 1
             /\ sim_index[1] = sim_start
             /\ sim_index[Len(sim_index)] = ClampedEnd
             /\ \A i \in 1..(Len(sim_index) - 1) : sim_index[i + 1] = NextDay(sim_index[i])
    /\ (sim_pc = "done" /\ sim_exc = "none" /\ sim_calls = sim_failed + 1)
          => /\ sim_frames[sim_ret].index = sim_index
             /\ Len(sim_frames[sim_ret].value) = Len(sim_index)

\* start on 29 February 2024, one year: 366 days, ending on 28 February 2025
C22_Witness ==
    /\ sim_pc = "done" /\ sim_exc = "none"
    /\ sim_start = MkDate(2024, 2, 29) /\ sim_p.years = 1
    /\ Len(sim_index) = 366
    /\ sim_index[366] = MkDate(2025, 2, 28)

\* start on 31 December 2023, one year: ending on 28 December 2024
C22_WitnessYearEnd ==
    /\ sim_pc = "done" /\ sim_exc = "none"
    /\ sim_start = MkDate(2023, 12, 31) /\ sim_p.years = 1
    /\ sim_index[Len(sim_index)] = MkDate(2024, 12, 28)
    /\ sim_index[2] = MkDate(2024, 1, 1)

\* the firsts of a month among the days numbered lo..hi (ordinals)
FirstsBetween(lo, hi, years) ==
    { ym \in (years \X (1..12)) :
         lo <= Ordinal(MkDate(ym[1], ym[2], 1)) /\ Ordinal(MkDate(ym[1], ym[2], 1)) <= hi }

\* the contributions injected on the first t days from start, from the
\* calendar and the monthly amount alone: monthly on each first of a month
Injected(start, monthly, t, years) ==
    IF monthly > 0
    THEN monthly * Cardinality(FirstsBetween(Ordinal(start), Ordinal(start) + t - 1,
                                             start.y..(start.y + years)))
    ELSE 0

C27_WitnessNoCompounding ==
    /\ sim_pc = "done" /\ sim_exc = "none" /\ sim_calls = 1
    /\ sim_start = MkDate(2024, 1, 15)
    /\ sim_p.initial = 1000 /\ sim_p.monthly = 300 /\ sim_p.years = 1
    /\ sim_p.annual_rate = 0 /\ sim_p.inflation_rate = 0
    /\ contribs[Len(contribs)] = 4600
    /\ values[Len(values)] = 4600

\* C28: in a run that returns a series, the divisor of real_value (the
\* inflation factor after the flooring of its non-positive entries) is a
\* number and is strictly positive on every day.
C28_DivisorPositive ==
    (sim_pc = "done" /\ sim_exc = "none" /\ sim_p.years > 0)
        => \A t \in 1..Len(infl_values) :
              /\ InflFactor(infl_values, t).k = "num"
              /\ InflFactor(infl_values, t).n > 0
              /\ InflFactor(infl_values, t).d > 0

(***************************************************************************)
(* parse_eventi_field                                                      *)
(*                                                                         *)
(* A cell is a sequence of lines; a line is a sequence of fields [k, v]    *)
(* standing for the text "k: v, k: v, ...".  Keys are written lower-case   *)
(* (the patterns are case-insensitive).  A value is text without commas:   *)
(* a sequence of characters and of words taken as one atom.                *)
(***************************************************************************)
\* largest number of lines of a cell
MaxLines == 2

\* str.lower() on the atoms used
LowerAtom(a) ==
    CASE a = "Si" -> "si" [] a = "SI" -> "si" [] a = "No" -> "no"
      [] a = "Submission" -> "submission" [] a = "Date" -> "date"
      [] a = "Eventi" -> "eventi" [] a = "EVENTI" -> "eventi"
      [] a = "Dati" -> "dati" [] a = "DATI" -> "dati"
      [] a = "Personali" -> "personali" [] a = "PERSONALI" -> "personali"
      [] a = "Nome" -> "nome" [] a = "Cognome" -> "cognome"
      [] a = "YES" -> "yes" [] a = "Famiglia" -> "famiglia"
      [] a = "Progetto" -> "progetto" [] a = "Lavoro" -> "lavoro"
      [] a = "SOGNI" -> "sogni" [] a = "Bisogno" -> "bisogno"
      [] a = "XYZ" -> "xyz" [] a = "Casa" -> "casa"
      [] OTHER -> a
Lower(t) == [i \in 1..Len(t) |-> LowerAtom(t[i])]

\* _norm_cat with "sogni" filed under "progetto"
norm_cat_sogni_progetto(cat) ==
    LET c == Lower(Strip(cat))
    IN IF c \in { <<"progetto">>, <<"desiderio">>, <<"bisogno">> } THEN c
       ELSE IF c \in { <<"famiglia">>, <<"obiettivi">>, <<"lavoro">>, <<"studio">>,
                       <<"carriera">>, <<"istruzione">>, <<"sogni">> } THEN <<"progetto">>
       ELSE IF c \in { <<"acquisti">>, <<"salute">>, <<"finanze">> } THEN <<"bisogno">>
       ELSE c

\* _norm_cat
norm_cat(cat) ==
    LET c == Lower(Strip(cat))
    IN IF c \in { <<"progetto">>, <<"desiderio">>, <<"bisogno">> } THEN c
       ELSE IF c \in { <<"famiglia">>, <<"obiettivi">>, <<"lavoro">>, <<"studio">>,
                       <<"carriera">>, <<"istruzione">> } THEN <<"progetto">>
       ELSE IF c \in { <<"acquisti">>, <<"salute">>, <<"finanze">> } THEN <<"bisogno">>
       ELSE IF c = <<"sogni">> THEN <<"desiderio">>
       ELSE c

\* "si-grave" stands for the word si written with a grave accent
yes_vals == { <<"si">>, <<"si-grave">>, <<"yes">>, <<"y">>, <<"true">>, <<"1">> }

\* [0-9]{1,4}[\/-][0-9]{1,2}[\/-][0-9]{2,4} on a whole value
DateShaped(v) ==
    LET parts == SplitDate(v)
    IN /\ Len(parts) = 3
       /\ \A i \in 1..3 : Len(parts[i]) > 0 /\ IntOk(parts[i])
       /\ Len(parts[1]) <= 4 /\ Len(parts[2]) <= 2
       /\ Len(parts[3]) >= 2 /\ Len(parts[3]) <= 4

\* the returned dicts have the keys Titolo, Categoria, DataEvento, Familiare and
\* Acarico only: NoCosto stands for the key Costo that no dict has (ev["Costo"]
\* is a KeyError, ev.get("Costo") is None)
NoCosto == << "no key Costo" >>
NoEntry == [ok |-> FALSE, Titolo |-> <<>>, Categoria |-> <<>>, DataEvento |-> <<>>,
            Familiare |-> <<>>, Acarico |-> FALSE, Costo |-> NoCosto]
Entry(t, c, d, f, a) == [ok |-> TRUE, Titolo |-> t, Categoria |-> c, DataEvento |-> d,
                         Familiare |-> f, Acarico |-> a, Costo |-> NoCosto]

KeysAt(line, i, keys) ==
    /\ i + Len(keys) - 1 <= Len(line)
    /\ \A j \in 1..Len(keys) : line[i + j - 1].k = keys[j]

\* EVENTI_REGEX_V3.search(line): start of the leftmost match, 0 if none
MatchV3(line) ==
    LET hits == { i \in 1..Len(line) :
                    /\ KeysAt(line, i, <<"titolo evento", "categoria", "data evento",
                                         "a carico?", "nome del familiare a carico">>)
                    /\ DateShaped(line[i + 2].v) }
    IN IF hits = {} THEN 0 ELSE CHOOSE i \in hits : \A j \in hits : i <= j
\* EVENTI_REGEX_V2.search(line)
MatchV2(line) ==
    LET hits == { i \in 1..Len(line) :
                    /\ KeysAt(line, i, <<"titolo evento", "categoria", "data evento">>)
                    /\ DateShaped(line[i + 2].v) }
    IN IF hits = {} THEN 0 ELSE CHOOSE i \in hits : \A j \in hits : i <= j
\* EVENTI_REGEX_V1.search(line)
MatchV1(line) ==
    LET hits == { i \in 1..Len(line) :
                    /\ KeysAt(line, i, <<"titolo", "categoria", "data">>)
                    /\ DateShaped(line[i + 2].v) }
    IN IF hits = {} THEN 0 ELSE CHOOSE i \in hits : \A j \in hits : i <= j

\* mutant: the name written on the line is kept whatever the flag
EntryV3KeepName(line, m, is_dep) ==
    Entry(Strip(line[m].v), norm_cat(line[m + 1].v), Strip(line[m + 2].v),
          Strip(line[m + 4].v), is_dep)
\* the entry built from a v3 match at field m
EntryV3(line, m, is_dep) ==
    Entry(Strip(line[m].v), norm_cat(line[m + 1].v), Strip(line[m + 2].v),
          IF is_dep THEN Strip(line[m + 4].v) ELSE <<>>, is_dep)
\* the entry built from a v2 match at field m, fam the optional group
EntryV2(line, m, fam) ==
    Entry(Strip(line[m].v), norm_cat(line[m + 1].v), Strip(line[m + 2].v), fam, fam # <<>>)
\* the entry built from a v1 match at field m
EntryV1(line, m) ==
    Entry(Strip(line[m].v), norm_cat(line[m + 1].v), Strip(line[m + 2].v), <<>>, FALSE)

StrictFrom(line, m3, m2, m1) ==
    IF m3 > 0
    THEN EntryV3(line, m3, Lower(Strip(line[m3 + 3].v)) \in yes_vals)
    ELSE IF m2 > 0
    THEN EntryV2(line, m2, IF KeysAt(line, m2 + 3, <<"nome del familiare">>)
                           THEN Strip(line[m2 + 3].v) ELSE <<>>)
    ELSE IF m1 > 0
    THEN EntryV1(line, m1)
    ELSE NoEntry

\* _parse_event_line_strict
parse_event_line_strict(line) ==
    StrictFrom(line, MatchV3(line), MatchV2(line), MatchV1(line))

\* re.findall(r"([^:]+):\s*([^,]*)", line) followed by norm_key: the key of
\* every pair after the first starts with the comma that ended the previous value
FlexKey(line, i) == IF i = 1 THEN line[i].k ELSE ", " \o line[i].k
\* d[norm_key(k)] = v.strip(): the last pair with that key wins
FlexGet(line, key) ==
    LET hits == { i \in 1..Len(line) : FlexKey(line, i) = key }
    IN IF hits = {} THEN <<>>
       ELSE Strip(line[CHOOSE i \in hits : \A j \in hits : j <= i].v)
FlexOr(x, y) == IF x # <<>> THEN x ELSE y

FlexFrom(titolo, cat, data_ev, yes, fam) ==
    IF ~(titolo # <<>> /\ cat # <<>> /\ data_ev # <<>>) THEN NoEntry
    ELSE Entry(Strip(titolo), norm_cat(cat), Strip(data_ev),
               IF yes THEN Strip(fam) ELSE <<>>, yes)

\* _parse_event_line_flexible
parse_event_line_flexible(line) ==
    IF line = <<>> THEN NoEntry
    ELSE FlexFrom(FlexOr(FlexGet(line, "titolo evento"), FlexGet(line, "titolo")),
                  FlexGet(line, "categoria"),
                  FlexOr(FlexGet(line, "data evento"), FlexGet(line, "data")),
                  Lower(Strip(FlexGet(line, "a carico?"))) \in yes_vals,
                  FlexOr(FlexGet(line, "nome del familiare a carico"),
                         FlexGet(line, "nome del familiare")))

OrFlexible(line, parsed) ==
    IF parsed.ok THEN parsed ELSE parse_event_line_flexible(line)
\* one line: strict, then flexible
ParseLine(line) == OrFlexible(line, parse_event_line_strict(line))

AppendIfParsed(out, line, parsed) ==
    IF line = <<>> \/ ~parsed.ok THEN out ELSE Append(out, parsed)
\* the loop over str(txt).splitlines()
RECURSIVE ParseLines(_, _)
ParseLines(txt, out) ==
    IF txt = <<>> THEN out
    ELSE ParseLines(Tail(txt), AppendIfParsed(out, Head(txt), ParseLine(Head(txt))))

\* a call parse_eventi_field(txt) (kw = "absent") or
\* parse_eventi_field(txt, default_is_dependent=kw): the signature is
\* parse_eventi_field(txt: str), so a keyword argument is a TypeError
parse_eventi_field(txt, kw) ==
    IF kw # "absent" THEN [exc |-> "TypeError", out |-> <<>>]
    ELSE [exc |-> "none", out |-> ParseLines(txt, <<>>)]

F(k, v) == [k |-> k, v |-> v]
GoodDate == <<"0", "1", "-", "0", "4", "-", "2", "0", "1", "0">>
BadDate == <<"3", "2", "-", "1", "3", "-", "2", "0", "2", "4">>
ShortDate == <<"1", "-", "1", "-", "5">>

LineV3(carico, fam, date) ==
    << F("titolo evento", <<"Operazione">>), F("categoria", <<"salute">>),
       F("data evento", date), F("a carico?", carico),
       F("nome del familiare a carico", fam) >>
LineV2(fam, date) ==
    << F("titolo evento", <<"Viaggio">>), F("categoria", <<"sogni">>),
       F("data evento", date) >> \o fam
LineV1(date) ==
    << F("titolo", <<"Casa nuova">>), F("categoria", <<"desiderio">>), F("data", date) >>
\* "..., Data Evento: d, Costo: 1500, A Carico?: Si, Nome del Familiare A Carico: Carlo"
LineV3CostoInside ==
    << F("titolo evento", <<"Laurea Classica">>), F("categoria", <<"Progetto">>),
       F("data evento", GoodDate), F("costo", <<"1", "5", "0", "0", " ">>),
       F("a carico?", <<"Si">>), F("nome del familiare a carico", <<"Carlo">>) >>
\* "..., A Carico?: Si, Nome del Familiare A Carico: Carlo, Costo: 1500"
LineV3CostoLast ==
    << F("titolo evento", <<"Laurea Classica">>), F("categoria", <<"Progetto">>),
       F("data evento", GoodDate), F("a carico?", <<"Si">>),
       F("nome del familiare a carico", <<"Carlo">>), F("costo", <<"1", "5", "0", "0">>) >>

\* values written after "A Carico?:"
CaricoTexts == { <<"Si">>, <<"SI">>, <<"si-grave">>, <<"yes">>, <<" ", "YES", " ">>, <<"y">>,
                 <<"true">>, <<"1">>, <<"No">>, <<"forse">> }

Lines == { <<>> }
         \cup { LineV3(c, <<"Anna">>, GoodDate) : c \in CaricoTexts }
         \cup {
           LineV3(<<"Si">>, <<>>, GoodDate),
           LineV2(<<>>, GoodDate),
           LineV2(<<>>, BadDate),
           LineV2(<< F("nome del familiare", <<"Carlo">>) >>, GoodDate),
           LineV2(<< F("costo", <<"2000">>) >>, GoodDate),
           LineV3CostoInside,
           LineV3CostoLast,
           \* "Categoria: Famiglia, Titolo: Nascita, Data: 01-04-2010"
           << F("categoria", <<"Famiglia">>), F("titolo", <<"Nascita">>), F("data", GoodDate) >>,
           \* "Data Evento: 01-04-2010, Categoria: studio, Titolo Evento: Laurea"
           << F("data evento", GoodDate), F("categoria", <<"studio">>),
              F("titolo evento", <<"Laurea">>) >>,
           \* "Titolo: Nascita, Categoria: Famiglia, Data: oggi"
           << F("titolo", <<"Nascita">>), F("categoria", <<"Famiglia">>), F("data", <<"oggi">>) >>,
           LineV1(GoodDate),
           LineV1(ShortDate),
           << F("nota", <<"xyz">>) >> }

\* the sequences over S of length at most n
SeqsUpTo(S, n) == UNION { [1..k -> S] : k \in 0..n }

Cells == SeqsUpTo(Lines, MaxLines)

InitEventi ==
    /\ ev_txt \in Cells
    /\ ev_kw \in {"absent", "true", "false"}
    /\ ev_pc = "call"
    /\ ev_result = [exc |-> "none", out |-> <<>>]
    /\ IdleDate /\ IdleLoad /\ IdleSim /\ IdleCat /\ IdleForecast /\ IdleHist
    /\ IdleMort

ParseEventi ==
    /\ ev_pc = "call"
    /\ ev_result' = parse_eventi_field(ev_txt, ev_kw)
    /\ ev_pc' = "done"
    /\ UNCHANGED <<ev_txt, ev_kw, dateVars, loadVars, simVars, catVars, fcVars, histVars, mortVars>>

NextEventi == ParseEventi
SpecEventi == InitEventi /\ [][NextEventi]_vars

(***************************************************************************)
(* _norm_cat on its own: a category text is normalised, and the result is  *)
(* normalised again.                                                       *)
(***************************************************************************)
\* largest number of spaces around a category text
MaxPad == 1

CurrentCats == { <<"progetto">>, <<"desiderio">>, <<"bisogno">> }
LegacyCats == { <<"famiglia">>, <<"acquisti">>, <<"obiettivi">>, <<"lavoro">>, <<"studio">>,
                <<"salute">>, <<"finanze">>, <<"sogni">>, <<"carriera">>, <<"istruzione">> }
\* "", "Famiglia", "Progetto", "Lavoro", "SOGNI", "Bisogno", "xyz", "XYZ",
\* "Casa nuova"
OtherCats == { <<>>, <<"Famiglia">>, <<"Progetto">>, <<"Lavoro">>, <<"SOGNI">>, <<"Bisogno">>,
               <<"xyz">>, <<"XYZ">>, <<"Casa", " ", "nuova">> }
Spaces(n) == [i \in 1..n |-> " "]
CatTexts == { Spaces(l) \o w \o Spaces(r) :
                 l \in 0..MaxPad, r \in 0..MaxPad,
                 w \in CurrentCats \cup LegacyCats \cup OtherCats }

InitCat ==
    /\ cat_arg \in CatTexts
    /\ cat_results = <<>>
    /\ IdleDate /\ IdleEventi /\ IdleLoad /\ IdleSim /\ IdleForecast /\ IdleHist
    /\ IdleMort

\* _norm_cat(cat)
NormCat ==
    /\ cat_results = <<>>
    /\ cat_results' = << norm_cat(cat_arg) >>
    /\ UNCHANGED <<cat_arg, dateVars, eventiVars, loadVars, simVars, fcVars, histVars, mortVars>>

\* _norm_cat(_norm_cat(cat)): the result goes through the function again
NormCatAgain ==
    /\ Len(cat_results) = 1
    /\ cat_results' = Append(cat_results, norm_cat(cat_results[1]))
    /\ UNCHANGED <<cat_arg, dateVars, eventiVars, loadVars, simVars, fcVars, histVars, mortVars>>

NextCat == NormCat \/ NormCatAgain
SpecCat == InitCat /\ [][NextCat]_vars

\* the category the claim lists for a trimmed, lower-case text
ListedCat(c) ==
    IF c \in CurrentCats THEN c
    ELSE IF c \in { <<"famiglia">>, <<"obiettivi">>, <<"lavoro">>, <<"studio">>,
                    <<"carriera">>, <<"istruzione">> } THEN <<"progetto">>
    ELSE IF c \in { <<"acquisti">>, <<"salute">>, <<"finanze">> } THEN <<"bisogno">>
    ELSE IF c = <<"sogni">> THEN <<"desiderio">>
    ELSE c

\* C18: after trimming and lower-casing, the ten legacy categories map to
\* their listed member of {bisogno, progetto, desiderio}, the three current
\* categories map to themselves, every other text is returned trimmed and
\* lower-cased, and normalising the result again leaves it unchanged.
C18_CategoryNormalisation ==
    /\ (Len(cat_results) >= 1)
          => /\ cat_results[1] = ListedCat(Lower(Strip(cat_arg)))
             /\ (Lower(Strip(cat_arg)) \in LegacyCats) => cat_results[1] \in CurrentCats
             /\ (Lower(Strip(cat_arg)) \notin LegacyCats)
                   => cat_results[1] = Lower(Strip(cat_arg))
    /\ (Len(cat_results) = 2) => cat_results[2] = cat_results[1]

\* " SOGNI " gives "desiderio", and "desiderio" again
C18_Witness ==
    /\ cat_arg = <<" ", "SOGNI", " ">>
    /\ cat_results = << <<"desiderio">>, <<"desiderio">> >>

\* "XYZ " passes through as "xyz"
C18_WitnessUnmapped ==
    /\ cat_arg = <<"XYZ", " ">>
    /\ cat_results = << <<"xyz">>, <<"xyz">> >>

\* a line of the v2 or v1 schema that carries no dependent marker
PlainV2V1(line) ==
    /\ MatchV3(line) = 0
    /\ \/ MatchV2(line) > 0 /\ ~KeysAt(line, MatchV2(line) + 3, <<"nome del familiare">>)
       \/ MatchV2(line) = 0 /\ MatchV1(line) > 0

\* a line made of the five fields of the v3 schema
V3Line(line) ==
    /\ Len(line) = 5
    /\ KeysAt(line, 1, <<"titolo evento", "categoria", "data evento", "a carico?",
                         "nome del familiare a carico">>)
    /\ DateShaped(line[3].v)
\* the texts that are one of si, si-grave, yes, y, true, 1 in some letter case
YesAnswers == { <<"Si">>, <<"SI">>, <<"si">>, <<"si-grave">>, <<"yes">>, <<"YES">>, <<"y">>,
                <<"true">>, <<"1">> }

\* C12: on a v3 line, when the A Carico? value is one of si, si-grave, yes, y,
\* true, 1 in any letter case the entry has Acarico = True and Familiare = the
\* given name; for any other value it has Acarico = False and Familiare = ""
\* even when a name is written on the line.
C12_V3DependentFlag ==
    (ev_pc = "done" /\ ev_kw = "absent" /\ ev_txt # <<>>
       /\ \A i \in 1..Len(ev_txt) : V3Line(ev_txt[i]))
        => /\ ev_result.exc = "none"
           /\ Len(ev_result.out) = Len(ev_txt)
           /\ \A i \in 1..Len(ev_txt) :
                 IF Strip(ev_txt[i][4].v) \in YesAnswers
                 THEN /\ ev_result.out[i].Acarico = TRUE
                      /\ ev_result.out[i].Familiare = ev_txt[i][5].v
                 ELSE /\ ev_result.out[i].Acarico = FALSE
                      /\ ev_result.out[i].Familiare = <<>>

C12_Witness ==
    /\ ev_pc = "done" /\ ev_kw = "absent"
    /\ ev_txt = << LineV3(<<" ", "YES", " ">>, <<"Anna">>, GoodDate),
                   LineV3(<<"No">>, <<"Anna">>, GoodDate) >>
    /\ ev_result.out[1].Acarico = TRUE /\ ev_result.out[1].Familiare = <<"Anna">>
    /\ ev_result.out[2].Acarico = FALSE /\ ev_result.out[2].Familiare = <<>>

\* the Costo field of a line and the line without it
HasCosto(line) == \E i \in 1..Len(line) : line[i].k = "costo"
CostoOf(line) == line[CHOOSE i \in 1..Len(line) : line[i].k = "costo"].v
IsNotCosto(f) == f.k # "costo"
WithoutCosto(line) == SelectSeq(line, IsNotCosto)

\* C13: for a line carrying a Costo field the entry has the key Costo with the
\* trimmed value, and a v3 line is still recognised with its A Carico? flag and
\* its dependent name.
C13_CostKept ==
    (ev_pc = "done" /\ ev_kw = "absent" /\ ev_txt # <<>>
       /\ \A i \in 1..Len(ev_txt) :
             HasCosto(ev_txt[i])
                /\ (V3Line(WithoutCosto(ev_txt[i])) \/ PlainV2V1(WithoutCosto(ev_txt[i]))))
        => /\ ev_result.exc = "none"
           /\ Len(ev_result.out) = Len(ev_txt)
           /\ \A i \in 1..Len(ev_txt) :
                 /\ ev_result.out[i].Costo = Strip(CostoOf(ev_txt[i]))
                 /\ (V3Line(WithoutCosto(ev_txt[i]))
                       /\ Strip(WithoutCosto(ev_txt[i])[4].v) \in YesAnswers)
                      => /\ ev_result.out[i].Acarico = TRUE
                         /\ ev_result.out[i].Familiare = WithoutCosto(ev_txt[i])[5].v

\* the trimmed value of the first field of the line with one of the keys
FieldOf(line, keys) ==
    IF \E i \in 1..Len(line) : line[i].k \in keys
    THEN Strip(line[CHOOSE i \in 1..Len(line) :
                       line[i].k \in keys /\ \A j \in 1..(i - 1) : line[j].k \notin keys].v)
    ELSE <<>>
NoStrictMatch(line) == MatchV3(line) = 0 /\ MatchV2(line) = 0 /\ MatchV1(line) = 0
\* key: value pairs giving a title, a category and a date, in any order
GivesTitleCategoryDate(line) ==
    /\ FieldOf(line, {"titolo evento", "titolo"}) # <<>>
    /\ FieldOf(line, {"categoria"}) # <<>>
    /\ FieldOf(line, {"data evento", "data"}) # <<>>

\* C14: a line that matches no strict pattern but gives a title, a category and
\* a date as key: value pairs, in any order, yields exactly one entry with those
\* values; a line that matches none of the four schemas yields no entry.
C14_FlexibleFallback ==
    (ev_pc = "done" /\ ev_kw = "absent" /\ Len(ev_txt) = 1 /\ NoStrictMatch(ev_txt[1]))
        => IF GivesTitleCategoryDate(ev_txt[1])
           THEN /\ Len(ev_result.out) = 1
                /\ ev_result.out[1].Titolo = FieldOf(ev_txt[1], {"titolo evento", "titolo"})
                /\ ev_result.out[1].Categoria = norm_cat(FieldOf(ev_txt[1], {"categoria"}))
                /\ ev_result.out[1].DataEvento = FieldOf(ev_txt[1], {"data evento", "data"})
           ELSE ev_result.out = <<>>

\* C3: parse_eventi_field(text, default_is_dependent=True) is accepted and
\* returns, for every v2 or v1 line without a dependent marker, an entry with
\* Acarico = True and Familiare = "".
C3_DefaultDependentForced ==
    (ev_pc = "done" /\ ev_kw = "true" /\ ev_txt # <<>>
       /\ \A i \in 1..Len(ev_txt) : PlainV2V1(ev_txt[i]))
        => /\ ev_result.exc = "none"
           /\ Len(ev_result.out) = Len(ev_txt)
           /\ \A i \in 1..Len(ev_result.out) :
                 ev_result.out[i].Acarico = TRUE /\ ev_result.out[i].Familiare = <<>>

(***************************************************************************)
(* load_events_csv                                                         *)
(*                                                                         *)
(* The table has the columns of the tests: Submission Date, Eventi,        *)
(* Eventi familiari a carico, Dati Personali.  A row is                    *)
(* [subm, dati, ev, dep]: the submission text, the personal data           *)
(* [matched, nome, cognome] found by PERSONA_REGEX, and the two cells.     *)
(***************************************************************************)
DatetimeMin == MkDate(1, 1, 1)

\* A column name is a sequence of words and of the characters " ", ":",
\* "NBSP" (U+00A0) and "BOM" (U+FEFF).
\* characters str.strip() removes: white space, U+00A0 included
WhiteChars == {" ", "NBSP"}
RECURSIVE LStripWs(_)
LStripWs(s) == IF s # <<>> /\ Head(s) \in WhiteChars THEN LStripWs(Tail(s)) ELSE s
RECURSIVE RStripWs(_)
RStripWs(s) ==
    IF s # <<>> /\ s[Len(s)] \in WhiteChars THEN RStripWs(SubSeq(s, 1, Len(s) - 1)) ELSE s
StripWs(s) == RStripWs(LStripWs(s))
\* .lstrip("\ufeff")
RECURSIVE LStripBom(_)
LStripBom(s) == IF s # <<>> /\ Head(s) = "BOM" THEN LStripBom(Tail(s)) ELSE s
\* .replace("\xa0", " ")
NbspToSpace(s) == [i \in 1..Len(s) |-> IF s[i] = "NBSP" THEN " " ELSE s[i]]
\* if x.endswith(":"): x = x[:-1]
DropColon(x) == IF x # <<>> /\ x[Len(x)] = ":" THEN SubSeq(x, 1, Len(x) - 1) ELSE x
\* _map_columns.normalize
normalize(col) == DropColon(NbspToSpace(Lower(LStripBom(StripWs(col)))))

\* None for a column that was not found
NoCol == <<>>
NoColumns == [subm_col |-> NoCol, eventi_cols |-> <<>>, eventi_dep_cols |-> <<>>,
              nome_col |-> NoCol, cognome_col |-> NoCol, dati_pers_col |-> NoCol]
\* the if / elif chain of the loop over df.columns
ColumnStep(m, raw_col, norm) ==
    IF norm = <<"submission", " ", "date">> THEN [m EXCEPT !.subm_col = raw_col]
    ELSE IF norm \in { <<"eventi">>, <<"eventi", " ", "personali">> }
    THEN [m EXCEPT !.eventi_cols = Append(@, raw_col)]
    ELSE IF norm \in { <<"eventi", " ", "familiari", " ", "a", " ", "carico">>,
                       <<"eventi", " ", "familiari">> }
    THEN [m EXCEPT !.eventi_dep_cols = Append(@, raw_col)]
    ELSE IF norm = <<"nome">> THEN [m EXCEPT !.nome_col = raw_col]
    ELSE IF norm = <<"cognome">> THEN [m EXCEPT !.cognome_col = raw_col]
    ELSE IF norm = <<"dati", " ", "personali">> THEN [m EXCEPT !.dati_pers_col = raw_col]
    ELSE m
RECURSIVE MapColumnsFrom(_, _)
MapColumnsFrom(cols, m) ==
    IF cols = <<>> THEN m
    ELSE MapColumnsFrom(Tail(cols), ColumnStep(m, Head(cols), normalize(Head(cols))))
\* mutant: a Cognome column alone identifies the person
SchemaOkWithCognome(m) ==
    /\ m.subm_col # NoCol
    /\ (m.eventi_cols # <<>> \/ m.eventi_dep_cols # <<>>)
    /\ (m.dati_pers_col # NoCol \/ m.nome_col # NoCol \/ m.cognome_col # NoCol)
\* the condition under which _map_columns does not raise
SchemaOk(m) ==
    /\ m.subm_col # NoCol
    /\ (m.eventi_cols # <<>> \/ m.eventi_dep_cols # <<>>)
    /\ (m.dati_pers_col # NoCol \/ m.nome_col # NoCol)
\* _map_columns: the columns found
map_columns(cols) == MapColumnsFrom(cols, NoColumns)

\* pd.to_datetime(raw, dayfirst=dayfirst, errors="coerce"); NaT is NoDate.
\* A year-first text is read Y-M-D; with the year last the preferred order is
\* tried first and the other order when the preferred one is not a date.
ToDatetimeFrom(parts, dayfirst) ==
    IF ~(Len(parts) = 3 /\ \A i \in 1..3 : Len(parts[i]) > 0 /\ IntOk(parts[i]))
    THEN NoDate
    ELSE IF Len(parts[1]) = 4 THEN DateOrNone(int(parts[1]), int(parts[2]), int(parts[3]))
    ELSE IF Len(parts[3]) # 4 THEN NoDate
    ELSE IF dayfirst = ValidDate(int(parts[3]), int(parts[2]), int(parts[1]))
            \/ ~ValidDate(int(parts[3]), int(parts[1]), int(parts[2]))
    THEN DateOrNone(int(parts[3]), int(parts[2]), int(parts[1]))
    ELSE MkDate(int(parts[3]), int(parts[1]), int(parts[2]))
ToDatetime(raw, dayfirst) == ToDatetimeFrom(SplitDate(raw), dayfirst)

\* pd.isna(parsed): the second attempt, then the fallback
OrElse(parsed, other) == IF parsed = NoDate THEN other ELSE parsed

\* mutant: an empty or unparseable submission is ranked newest
parse_submission_max(value) ==
    IF Strip(value) = <<>> THEN MkDate(9999, 12, 31)
    ELSE OrElse(OrElse(ToDatetime(Strip(value), TRUE), ToDatetime(Strip(value), FALSE)),
                MkDate(9999, 12, 31))

\* _parse_submission
parse_submission(value) ==
    IF Strip(value) = <<>> THEN DatetimeMin
    ELSE OrElse(OrElse(ToDatetime(Strip(value), TRUE), ToDatetime(Strip(value), FALSE)),
                DatetimeMin)

\* _extract_person: the full name f"{nome} {cognome}".strip()
extract_person(row) ==
    IF row.dati.matched
    THEN Strip(Strip(row.dati.nome) \o <<" ">> \o Strip(row.dati.cognome))
    ELSE <<>>

\* _extract_person: info = PersonInfo(nome=nome or full_name, cognome=cognome,
\* sesso=sesso, nascita=nascita_dt); the cells carry no birth date (None)
PersonInfo(row) ==
    [nome |-> IF Strip(row.dati.nome) = <<>> THEN extract_person(row) ELSE Strip(row.dati.nome),
     cognome |-> Strip(row.dati.cognome), sesso |-> row.dati.sesso, nascita |-> NoDate]

\* mutant: on equal timestamps the row already selected is kept
ReplacesStrictlyNewer(submission_dt, existing) ==
    DateKey(submission_dt) > DateKey(existing.submission)

\* mutant: the first row seen for a person is kept
ReplacesFirstWins(submission_dt, existing) == FALSE

\* submission_dt >= existing["submission"]
Replaces(submission_dt, existing) == DateKey(submission_dt) >= DateKey(existing.submission)

\* position of a key in the dict, 0 if absent
FormIndex(forms, name) ==
    LET hits == { k \in 1..Len(forms) : forms[k].name = name }
    IN IF hits = {} THEN 0 ELSE CHOOSE k \in hits : TRUE

\* text = str(row.get(col, "")).strip(); not text
CellBlank(cell) == \A i \in 1..Len(cell) : cell[i] = <<>>

\* Event(nome=full_name, ...); row (index of the source row) and seq (position
\* at which events.append placed it) are history fields
MkEvent(full_name, idx, ev, dt, is_dep, seq) ==
    [nome |-> full_name, titolo |-> ev.Titolo, categoria |-> ev.Categoria,
     data_str |-> ev.DataEvento, dt |-> dt,
     familiare |-> IF is_dep THEN ev.Familiare ELSE <<>>,
     is_dependent |-> is_dep, costo |-> ev.Costo, row |-> idx, seq |-> seq]

\* the body of "for ev in extracted" after dt = parse_date(...): [exc, evs]
EventStep(full_name, idx, default_dep, ev, dt, acc) ==
    IF dt = RaisedValueError THEN [exc |-> "ValueError", evs |-> acc]
    ELSE IF dt = NoDate THEN [exc |-> "none", evs |-> acc]
    ELSE [exc |-> "none",
          evs |-> Append(acc, MkEvent(full_name, idx, ev, dt, ev.Acarico \/ default_dep,
                                      Len(acc) + 1))]

\* the loop over the entries of one cell: [exc, evs]
RECURSIVE EventsOf(_, _, _, _, _)
EventsOf(full_name, idx, default_dep, extracted, r) ==
    IF extracted = <<>> \/ r.exc # "none" THEN r
    ELSE EventsOf(full_name, idx, default_dep, Tail(extracted),
                  EventStep(full_name, idx, default_dep, Head(extracted),
                            parse_date(Head(extracted).DataEvento), r.evs))

\* extracted = parse_eventi_field(text, default_is_dependent=default_dep) and
\* the loop over it
EventsOfCall(full_name, idx, default_dep, called, acc) ==
    IF called.exc # "none" THEN [exc |-> called.exc, evs |-> acc]
    ELSE EventsOf(full_name, idx, default_dep, called.out, [exc |-> "none", evs |-> acc])

\* one event column of the selected row: [exc, evs]
EventsOfColumn(full_name, idx, col, acc) ==
    IF CellBlank(col.text) THEN [exc |-> "none", evs |-> acc]
    ELSE EventsOfCall(full_name, idx, col.dep,
                      parse_eventi_field(col.text, IF col.dep THEN "true" ELSE "false"), acc)

\* the loop over event_columns for one selected form: [exc, evs]
RECURSIVE EventsOfColumns(_, _, _, _)
EventsOfColumns(full_name, idx, cols, r) ==
    IF cols = <<>> \/ r.exc # "none" THEN r
    ELSE EventsOfColumns(full_name, idx, Tail(cols),
                         EventsOfColumn(full_name, idx, Head(cols), r.evs))

\* sorted(events, key=lambda e: e.dt): stable
RECURSIVE InsertByDt(_, _)
InsertByDt(sorted, e) ==
    IF sorted = <<>> THEN <<e>>
    ELSE IF DateKey(sorted[Len(sorted)].dt) <= DateKey(e.dt) THEN Append(sorted, e)
    ELSE Append(InsertByDt(SubSeq(sorted, 1, Len(sorted) - 1), e), sorted[Len(sorted)])
RECURSIVE SortedByDt(_, _)
SortedByDt(evs, acc) ==
    IF evs = <<>> THEN acc ELSE SortedByDt(Tail(evs), InsertByDt(acc, Head(evs)))

\* the details parse_personal_details reads in the personal-data cell
Mario == [matched |-> TRUE, nome |-> <<"Mario">>, cognome |-> <<"Rossi">>, sesso |-> ""]
MarioUomo == [matched |-> TRUE, nome |-> <<"Mario">>, cognome |-> <<"Rossi">>, sesso |-> "uomo"]
Lucia == [matched |-> TRUE, nome |-> <<"Lucia">>, cognome |-> <<"Bianchi">>, sesso |-> "donna"]
NoPerson == [matched |-> FALSE, nome |-> <<>>, cognome |-> <<>>, sesso |-> ""]
\* "", "n/a", "2024-01-15", "02/01/2024"
SubmEmpty == <<>>
SubmGarbage == <<"n", "/", "a">>
SubmIso == <<"2", "0", "2", "4", "-", "0", "1", "-", "1", "5">>
SubmDayFirst == <<"0", "2", "/", "0", "1", "/", "2", "0", "2", "4">>
Subms == { SubmEmpty, SubmGarbage, SubmIso, SubmDayFirst }
CellPairs == { [ev |-> <<>>, dep |-> <<>>],
               [ev |-> << LineV2(<<>>, GoodDate), LineV2(<<>>, BadDate) >>,
                dep |-> << LineV3(<<"Si">>, <<"Anna">>, GoodDate) >>] }
Rows == { [subm |-> s, dati |-> Mario, ev |-> c.ev, dep |-> c.dep] :
             s \in Subms, c \in CellPairs }
        \cup { [subm |-> s, dati |-> MarioUomo, ev |-> <<>>, dep |-> <<>>] :
                  s \in { SubmEmpty, SubmIso } }
        \cup { [subm |-> SubmIso, dati |-> Lucia, ev |-> c.ev, dep |-> c.dep] :
                  c \in CellPairs }
        \cup { [subm |-> SubmIso, dati |-> NoPerson, ev |-> <<>>, dep |-> <<>>] }
Tables == SeqsUpTo(Rows, MaxRows)

\* COLS of the tests: the header the rows above belong to
StandardColumns ==
    << <<"Submission", " ", "Date">>, <<"Eventi", ":">>,
       <<"Eventi", " ", "familiari", " ", "a", " ", "carico", ":">>,
       <<"Dati", " ", "Personali">> >>
\* other headers, read from files without rows
OtherHeaders ==
    { <<>>,
      << <<"Submission", " ", "Date">>, <<"Eventi", ":">> >>,
      << <<"Eventi", ":">>, <<"Dati", " ", "Personali">> >>,
      << <<"Submission", " ", "Date">>, <<"Dati", " ", "Personali">> >>,
      << <<"Submission", " ", "Date">>, <<"Eventi", ":">>, <<"Cognome">> >>,
      << <<"Submission", " ", "Date">>, <<"Eventi", ":", ":">>, <<"Dati", " ", "Personali">> >>,
      << <<"Submission", " ", "Date">>, <<"Eventi", " ", ":">>, <<"Dati", " ", "Personali">> >>,
      << <<"Submission", " ", "Date">>, <<"Dati", " ", "Personali">>, <<"nota">> >>,
      << <<"BOM", "Submission", " ", "Date">>, <<"eventi", " ", "personali">>, <<"Nome">> >>,
      << <<"submission", "NBSP", "date", ":">>, <<"Eventi", " ", "familiari">>,
         <<"Nome">>, <<"Cognome">> >>,
      << <<" ", "Submission", " ", "Date", " ">>, <<"EVENTI">>,
         <<"DATI", " ", "PERSONALI", ":">> >>,
      << <<"Dati", " ", "Personali">>, <<"Eventi", " ", "familiari", " ", "a", " ", "carico">>,
         <<"NBSP", "Submission", " ", "Date">> >> }

InitLoad ==
    /\ \/ columns = StandardColumns /\ df \in Tables
       \/ columns \in OtherHeaders /\ df = <<>>
    /\ l_pc = "map"
    /\ l_i = 1
    /\ selected_forms = <<>>
    /\ events = <<>>
    /\ l_exc = "none"
    /\ people = {}
    /\ IdleDate /\ IdleEventi /\ IdleSim /\ IdleCat /\ IdleForecast /\ IdleHist
    /\ IdleMort

\* the outcome of the call of _map_columns
Mapped(ok) ==
    IF ok
    THEN /\ l_pc' = (IF df = <<>> THEN "build" ELSE "dedup")
         /\ UNCHANGED l_exc
    ELSE /\ l_pc' = "done"
         /\ l_exc' = "ValueError"

\* ... = _map_columns(df)
MapColumns ==
    /\ l_pc = "map"
    /\ Mapped(SchemaOk(map_columns(columns)))
    /\ UNCHANGED <<columns, df, l_i, selected_forms, events, people, dateVars, eventiVars, simVars, catVars, fcVars, histVars, mortVars>>

\* selected_forms after one row
Selected(forms, full_name, k, payload) ==
    IF full_name = <<>> THEN forms
    ELSE IF k = 0 THEN Append(forms, payload)
    ELSE IF Replaces(payload.submission, forms[k]) THEN [forms EXCEPT ![k] = payload]
    ELSE forms

\* one iteration of "for _, row in df.iterrows()"
DedupRow ==
    /\ l_pc = "dedup"
    /\ l_i <= Len(df)
    /\ selected_forms' =
          Selected(selected_forms, extract_person(df[l_i]),
                   FormIndex(selected_forms, extract_person(df[l_i])),
                   [name |-> extract_person(df[l_i]), row |-> df[l_i], idx |-> l_i,
                    submission |-> parse_submission(df[l_i].subm),
                    info |-> PersonInfo(df[l_i])])
    /\ l_i' = IF l_i = Len(df) THEN 1 ELSE l_i + 1
    /\ l_pc' = IF l_i = Len(df) THEN "build" ELSE "dedup"
    /\ UNCHANGED <<columns, df, events, l_exc, people, dateVars, eventiVars, simVars, catVars, fcVars, histVars, mortVars>>

\* the events of one selected form, from its two event columns
FormEvents(f, acc) ==
    EventsOfColumns(f.name, f.idx,
        << [dep |-> FALSE, text |-> f.row.ev], [dep |-> TRUE, text |-> f.row.dep] >>,
        [exc |-> "none", evs |-> acc])

\* people[full_name] = info
PutPerson(dict, full_name, info) ==
    { e \in dict : e.name # full_name } \cup { [name |-> full_name, info |-> info] }

\* the outcome of one iteration of the second loop: nothing is returned when
\* it raises
Built(r, f) ==
    IF r.exc # "none"
    THEN /\ l_exc' = r.exc
         /\ l_pc' = "done"
         /\ events' = <<>>
         /\ people' = {}
         /\ l_i' = l_i
    ELSE /\ events' = r.evs
         /\ people' = PutPerson(people, f.name, f.info)
         /\ l_i' = l_i + 1
         /\ UNCHANGED <<l_exc, l_pc>>

\* one iteration of "for full_name, payload in selected_forms.items()"
BuildForm ==
    /\ l_pc = "build"
    /\ l_i <= Len(selected_forms)
    /\ Built(FormEvents(selected_forms[l_i], events), selected_forms[l_i])
    /\ UNCHANGED <<columns, df, selected_forms, dateVars, eventiVars, simVars, catVars, fcVars, histVars, mortVars>>

\* events_sorted = sorted(...); return
Return ==
    /\ l_pc = "build"
    /\ l_i > Len(selected_forms)
    /\ events' = SortedByDt(events, <<>>)
    /\ l_pc' = "done"
    /\ UNCHANGED <<columns, df, l_i, selected_forms, l_exc, people, dateVars, eventiVars, simVars, catVars, fcVars, histVars, mortVars>>

NextLoad == MapColumns \/ DedupRow \/ BuildForm \/ Return
SpecLoad == InitLoad /\ [][NextLoad]_vars

\* rows of the table that belong to a person
RowsOf(name) == { j \in 1..Len(df) : extract_person(df[j]) = name }
SubmKey(j) == DateKey(parse_submission(df[j].subm))
BadSubm(j) == df[j].subm \in { SubmEmpty, SubmGarbage }
CellsOf(row) == << row.ev, row.dep >>

HasBadDateLine ==
    \E k \in 1..Len(selected_forms), c \in 1..2 :
       \E i \in 1..Len(CellsOf(selected_forms[k].row)[c]) :
          LET e == ParseLine(CellsOf(selected_forms[k].row)[c][i])
          IN e.ok /\ parse_date(e.DataEvento) = NoDate

\* C2: events whose date text cannot be parsed are left out and the load does
\* not raise; every returned event has dt = parse_date(data_str), not None, and
\* the other events of the same cell and row are returned.
C2_BadDatesSkipped ==
    (l_pc = "done" /\ HasBadDateLine)
        => /\ l_exc = "none"
           /\ \A n \in 1..Len(events) :
                 events[n].dt.k = "date" /\ events[n].dt = parse_date(events[n].data_str)
           /\ \A k \in 1..Len(selected_forms), c \in 1..2 :
                 \A i \in 1..Len(CellsOf(selected_forms[k].row)[c]) :
                    LET e == ParseLine(CellsOf(selected_forms[k].row)[c][i])
                    IN (e.ok /\ parse_date(e.DataEvento).k = "date")
                          => \E n \in 1..Len(events) :
                                /\ events[n].nome = selected_forms[k].name
                                /\ events[n].titolo = e.Titolo
                                /\ events[n].data_str = e.DataEvento

\* the lines of the selected rows that give an event with a calendar date:
\* <<form, column, line>>
DatedLines ==
    { t \in (1..Len(selected_forms)) \X (1..2) \X (1..MaxLines) :
        /\ t[3] <= Len(CellsOf(selected_forms[t[1]].row)[t[2]])
        /\ ParseLine(CellsOf(selected_forms[t[1]].row)[t[2]][t[3]]).ok
        /\ parse_date(ParseLine(CellsOf(selected_forms[t[1]].row)[t[2]][t[3]]).DataEvento).k
              = "date" }

\* C15: the list load_events_csv returns is sorted ascending by parsed date and
\* events with equal dates keep their insertion order; for a table whose
\* selected rows give at least two dated events the list is returned with
\* those events.
C15_SortedStable ==
    (l_pc = "done" /\ Cardinality(DatedLines) >= 2)
        => /\ l_exc = "none"
           /\ Len(events) = Cardinality(DatedLines)
           /\ \A i, j \in 1..Len(events) :
                 i < j => \/ DateKey(events[i].dt) < DateKey(events[j].dt)
                          \/ /\ DateKey(events[i].dt) = DateKey(events[j].dt)
                             /\ events[i].seq < events[j].seq

\* a column name after the normalisation: trimmed, BOM stripped, NBSP to
\* space, lower-cased, trailing colon removed
NormalisedName(col) == DropColon(Lower(NbspToSpace(LStripBom(StripWs(col)))))
HasColumn(names) == \E i \in 1..Len(columns) : NormalisedName(columns[i]) \in names
\* the table lacks one of the required columns
LacksRequiredColumn ==
    \/ ~HasColumn({ <<"submission", " ", "date">> })
    \/ ~HasColumn({ <<"eventi">>, <<"eventi", " ", "personali">>,
                    <<"eventi", " ", "familiari", " ", "a", " ", "carico">>,
                    <<"eventi", " ", "familiari">> })
    \/ ~HasColumn({ <<"dati", " ", "personali">>, <<"nome">> })

\* C16: load_events_csv fails with ValueError if and only if the normalised
\* column names lack a submission-date column, or every events column, or both
\* the 'dati personali' and the 'nome' column; nothing is returned in that case.
C16_SchemaError ==
    (l_pc # "map")
        => /\ (l_exc = "ValueError") <=> LacksRequiredColumn
           /\ (l_exc = "ValueError")
                 => l_pc = "done" /\ events = <<>> /\ selected_forms = <<>>

C16_Witness ==
    /\ l_pc = "done" /\ l_exc = "ValueError"
    /\ columns = << <<"Submission", " ", "Date">>, <<"Eventi", ":">> >>

\* a file whose header passes the check although it is not written as in the tests
C16_WitnessAccepted ==
    /\ l_pc = "done" /\ l_exc = "none"
    /\ columns[1] = <<"submission", "NBSP", "date", ":">>

\* the lines of the dependents cells of the selected rows that give an event
\* with a calendar date: <<form, 2, line>>
DependentLines == { t \in DatedLines : t[2] = 2 }

\* C17: every event built from the dependents column has is_dependent = True
\* and the family member's name written on its line, and every event carries
\* the full name of the person of a selected row; a table whose selected rows
\* have a dated line in the dependents column is loaded with those events.
C17_DependentsColumn ==
    (l_pc = "done" /\ DependentLines # {})
        => /\ l_exc = "none"
           /\ \A n \in 1..Len(events) :
                 \E k \in 1..Len(selected_forms) :
                    /\ events[n].nome = selected_forms[k].name
                    /\ events[n].row = selected_forms[k].idx
           /\ \A t \in DependentLines :
                 LET line == CellsOf(selected_forms[t[1]].row)[2][t[3]]
                 IN \E n \in 1..Len(events) :
                       /\ events[n].nome = selected_forms[t[1]].name
                       /\ events[n].titolo = FieldOf(line, {"titolo evento", "titolo"})
                       /\ events[n].is_dependent = TRUE
                       /\ events[n].familiare
                             = FieldOf(line, {"nome del familiare a carico"})

\* C4: a row whose submission timestamp is empty or unparseable ranks oldest:
\* when another row of the same person has a parseable timestamp, the row kept
\* has a parseable timestamp, whichever comes first in the file; and a load
\* of a file with the required columns whose selected rows have no event text
\* ends without an exception.
C4_BadTimestampRanksOldest ==
    /\ (l_pc \in {"build", "done"})
          => \A k \in 1..Len(selected_forms) :
                (\E j \in RowsOf(selected_forms[k].name) : ~BadSubm(j))
                    => ~BadSubm(selected_forms[k].idx)
    /\ (l_pc = "done" /\ SchemaOk(map_columns(columns))
          /\ \A k \in 1..Len(selected_forms) :
                CellBlank(selected_forms[k].row.ev) /\ CellBlank(selected_forms[k].row.dep))
          => l_exc = "none"

C4_Witness ==
    /\ l_pc = "done" /\ l_exc = "none"
    /\ Len(df) = 2
    /\ df[1].dati = Mario /\ df[1].subm = SubmDayFirst
    /\ df[2].dati = Mario /\ df[2].subm = SubmGarbage
    /\ Len(selected_forms) = 1
    /\ selected_forms[1].idx = 1

\* C29: among the rows of a person with equal submission timestamps (two
\* empty or unparseable ones count as equal) the later row of the file wins:
\* no row of the person with the timestamp of the selected row comes after
\* it; and the PersonInfo is that of the selected row, the row the events are
\* read from, both in the selected form and in the people returned.
C29_TiesKeepLaterRow ==
    /\ (l_pc \in {"build", "done"})
          => \A k \in 1..Len(selected_forms) :
                LET f == selected_forms[k]
                IN /\ \A j \in RowsOf(f.name) : SubmKey(j) = SubmKey(f.idx) => j <= f.idx
                   /\ f.row = df[f.idx]
                   /\ f.info = PersonInfo(df[f.idx])
    /\ (l_pc \in {"build", "done"})
          => \A e \in people :
                \E k \in 1..Len(selected_forms) :
                   /\ selected_forms[k].name = e.name
                   /\ e.info = PersonInfo(df[selected_forms[k].idx])
    /\ (l_pc = "done" /\ l_exc = "none" /\ SchemaOk(map_columns(columns)))
          => \A k \in 1..Len(selected_forms) :
                \E e \in people : e.name = selected_forms[k].name

\* two rows of Mario without a usable timestamp: the second one is kept, and
\* Mario's PersonInfo is the one written in it
C29_Witness ==
    /\ l_pc = "done" /\ l_exc = "none"
    /\ Len(df) = 2
    /\ df[1].dati = Mario /\ df[1].subm = SubmGarbage
    /\ df[2].dati = MarioUomo /\ df[2].subm = SubmEmpty
    /\ Len(selected_forms) = 1
    /\ selected_forms[1].idx = 2
    /\ people = { [name |-> <<"Mario", " ", "Rossi">>, info |-> PersonInfo(df[2])] }
    /\ PersonInfo(df[2]).sesso = "uomo"

\* two rows with the same parsed timestamp, in the other order
C29_WitnessSameTimestamp ==
    /\ l_pc = "done" /\ l_exc = "none"
    /\ Len(df) = 2
    /\ df[1].dati = MarioUomo /\ df[1].subm = SubmIso
    /\ df[2].dati = Mario /\ df[2].subm = SubmIso
    /\ selected_forms[1].idx = 2
    /\ people = { [name |-> <<"Mario", " ", "Rossi">>, info |-> PersonInfo(df[2])] }
    /\ PersonInfo(df[2]).sesso = ""

(***************************************************************************)
(* forecast_cagrx_from_yfinance: the macro adjustment and the guard rails  *)
(*                                                                         *)
(* Rates are whole numbers of 0.00001 (0.03 is 3000); z-scores are whole   *)
(* numbers of standard deviations.                                         *)
(***************************************************************************)
\* largest ordinary z-score enumerated
ZMax == 4

w_tnx == -400
w_vix == -300
w_dxy == -150
GuardLow == -5000
GuardHigh == 15000

\* np.clip(x, lo, hi) without the upper limit
clip_low_only(x, lo, hi) == IF x < lo THEN lo ELSE x

\* np.clip(x, lo, hi): minimum(maximum(x, lo), hi)
clip(x, lo, hi) == IF (IF x < lo THEN lo ELSE x) > hi THEN hi ELSE (IF x < lo THEN lo ELSE x)

\* ordinary z-scores and two of a million standard deviations
ZScores == (-ZMax..ZMax) \cup {-1000000, 1000000}
\* base_cagr: -100%, -6%, -5%, -2%, 0, 7%, 13%, 15%, +1000%
BaseCagrs == {-100000, -6000, -5000, -2000, 0, 7000, 13000, 15000, 1000000}
\* the default band (0.03, 0.03) and an asymmetric one (0.01 up, 0.05 down)
Shifts == { [up |-> 3000, down |-> 3000], [up |-> 1000, down |-> 5000] }

InitForecast ==
    /\ fc_base \in BaseCagrs
    /\ fc_z \in ZScores \X ZScores \X ZScores
    /\ fc_shift \in Shifts
    /\ fc_pc = "macro"
    /\ fc_adj = 0 /\ fc_g = 0
    /\ IdleDate /\ IdleEventi /\ IdleLoad /\ IdleSim /\ IdleCat /\ IdleHist
    /\ IdleMort

\* adj = float(np.clip(w_tnx * z_tnx + w_vix * z_vix + w_dxy * z_dxy,
\*                     -max_downshift, max_upshift))
MacroAdjust ==
    /\ fc_pc = "macro"
    /\ fc_adj' = clip(w_tnx * fc_z[1] + w_vix * fc_z[2] + w_dxy * fc_z[3],
                      -fc_shift.down, fc_shift.up)
    /\ fc_pc' = "adjusted"
    /\ UNCHANGED <<fc_base, fc_z, fc_shift, fc_g, dateVars, eventiVars, loadVars, simVars,
                   catVars, histVars, mortVars>>

\* g = base_cagr + adj; g = float(np.clip(g, -0.05, 0.15))
GuardRails ==
    /\ fc_pc = "adjusted"
    /\ fc_g' = clip(fc_base + fc_adj, GuardLow, GuardHigh)
    /\ fc_pc' = "done"
    /\ UNCHANGED <<fc_base, fc_z, fc_shift, fc_adj, dateVars, eventiVars, loadVars, simVars,
                   catVars, histVars, mortVars>>

NextForecast == MacroAdjust \/ GuardRails
SpecForecast == InitForecast /\ [][NextForecast]_vars

\* C20: the macro adjustment lies in [-max_downshift, +max_upshift] and the
\* final adjusted annual rate lies in [-0.05, 0.15], for every base CAGR and
\* every combination of z-scores.
C20_ClampedRates ==
    /\ (fc_pc \in {"adjusted", "done"})
          => (-fc_shift.down <= fc_adj /\ fc_adj <= fc_shift.up)
    /\ (fc_pc = "done") => (-5000 <= fc_g /\ fc_g <= 15000)

\* z-scores of minus a million standard deviations and a base CAGR of +1000%:
\* the adjustment stops at +max_upshift and the rate at 0.15
C20_Witness ==
    /\ fc_pc = "done"
    /\ fc_z = <<-1000000, -1000000, -1000000>>
    /\ fc_base = 1000000
    /\ fc_shift = [up |-> 3000, down |-> 3000]
    /\ fc_adj = 3000
    /\ fc_g = 15000

\* z-scores of a million standard deviations and a base CAGR of -100%: the
\* adjustment stops at -max_downshift and the rate at -0.05
C20_WitnessDown ==
    /\ fc_pc = "done"
    /\ fc_z = <<1000000, 1000000, 1000000>>
    /\ fc_base = -100000
    /\ fc_adj = -fc_shift.down
    /\ fc_g = -5000

(***************************************************************************)
(* forecast_from_history and _estimate_cagr                                *)
(*                                                                         *)
(* An observation is [t, price, nan]: the day (an ordinal), the price, and *)
(* whether the price is NaN.  A number of years is counted in units of     *)
(* 1/5844 year, so that a day (1/365.25 year) is 16 units and a quarter of *)
(* a year is 1461.  A rate that is not 0 is kept as the expression that    *)
(* defines it.                                                             *)
(***************************************************************************)
\* observations beyond the threshold of 30 that are enumerated
MaxExtraObs == 1

MinWindowObs == 30
YearUnits == 5844
DayUnits == 16
QuarterYear == 1461

Max(a, b) == IF a >= b THEN a ELSE b

\* hist.dropna()
dropna(obs) == SelectSeq(obs, LAMBDA o : ~o.nan)

\* end - pd.DateOffset(years=n): the same day n years earlier, the day clamped
\* to the length of the month
DateOffsetBack(t, n) ==
    LET dt == FromOrdinal(t, 2000, 2030)
    IN Ordinal(MkDate(dt.y - n, dt.m, Min(dt.d, DaysInMonth(dt.y - n, dt.m))))

ZeroRate == [k |-> "zero"]

\* (float(w.iloc[-1]) / float(w.iloc[0])) ** (1.0 / years) - 1.0
Cagr(last, first, years) ==
    IF first = 0 THEN [k |-> "ZeroDivisionError"]
    ELSE IF last = first THEN ZeroRate
    ELSE [k |-> "rate", last |-> last, first |-> first, years |-> years]

\* the last two statements of _estimate_cagr, for the observations w
CagrOf(w, years, windowed) ==
    [g |-> IF years <= 0 \/ Len(w) < 2 THEN ZeroRate
           ELSE Cagr(w[Len(w)].price, w[1].price, years),
     years |-> years, w_first |-> w[1].t, w_last |-> w[Len(w)].t, windowed |-> windowed]

\* if len(w) < 30: w = series, years = max(days / 365.25, 0.25); else
\* years = years_window
EstimateFrom(series, w, years_window) ==
    IF Len(w) < MinWindowObs
    THEN CagrOf(series,
                Max((series[Len(series)].t - series[1].t) * DayUnits, QuarterYear), FALSE)
    ELSE CagrOf(w, years_window * YearUnits, TRUE)

\* w = series[series.index >= start_cut]
Window(series, start_cut) == SelectSeq(series, LAMBDA o : o.t >= start_cut)

\* _estimate_cagr(series, years_window)
estimate_cagr(series, years_window) ==
    IF series = <<>> THEN NoEstimate
    ELSE EstimateFrom(series,
                      Window(series, DateOffsetBack(series[Len(series)].t, years_window)),
                      years_window)

\* last_price * ((1.0 + daily) ** days), daily = (1.0 + g) ** (1.0 / 365.25) - 1.0
Projected(last_price, g, days) ==
    IF g = ZeroRate \/ days = 0 THEN [k |-> "price", v |-> last_price]
    ELSE [k |-> "grown", from |-> last_price, g |-> g, days |-> days]

\* the loop over future_index
Projection(clean, g, future) ==
    [i \in 1..Len(future) |->
        Projected(clean[Len(clean)].price, g, Max(0, future[i] - clean[Len(clean)].t))]

\* the last day of every history: 1 March 2024
EndT == Ordinal(MkDate(2024, 3, 1))
HistSizes == {0, 1, 2, 60} \cup ((MinWindowObs - 1)..(MinWindowObs + MaxExtraObs))
HistSteps == {1, 7}
NanModes == {"none", "first", "all"}
\* n observations, step days apart, ending on EndT; the first price is first,
\* the last one last, the others 100
HistOf(n, step, first, last, nans) ==
    [k \in 1..n |->
        [t |-> EndT - step * (n - k),
         price |-> IF nans = "all" \/ (nans = "first" /\ k = 1) THEN 0
                   ELSE IF k = n THEN last ELSE IF k = 1 THEN first ELSE 100,
         nan |-> nans = "all" \/ (nans = "first" /\ k = 1)]]
Histories ==
    { [none |-> TRUE, obs |-> <<>>] }
    \cup { [none |-> FALSE, obs |-> HistOf(n, step, first, last, nans)] :
              n \in HistSizes, step \in HistSteps, first \in {0, 100}, last \in {100, 121},
              nans \in NanModes }
\* no future date; a day before the last observation, the next day, a year later
FutureIndexes == { <<>>, << EndT - 3, EndT + 1, EndT + 366 >> }
Lookbacks == {0, 1, 5}

InitHist ==
    /\ h_hist \in Histories
    /\ h_future \in FutureIndexes
    /\ h_lookback \in Lookbacks
    /\ h_pc = "call"
    /\ h_est = NoEstimate
    /\ h_out = [exc |-> "none", vals |-> <<>>]
    /\ IdleDate /\ IdleEventi /\ IdleLoad /\ IdleSim /\ IdleCat /\ IdleForecast
    /\ IdleMort

\* if hist is None or hist.empty or future_index.empty
EmptyInput == h_hist.none \/ h_hist.obs = <<>> \/ h_future = <<>>

\* return pd.Series(dtype=float)
ReturnEmpty ==
    /\ h_pc = "call"
    /\ EmptyInput
    /\ h_out' = [exc |-> "none", vals |-> <<>>]
    /\ h_pc' = "done"
    /\ UNCHANGED <<h_hist, h_future, h_lookback, h_est, dateVars, eventiVars, loadVars,
                   simVars, catVars, fcVars, mortVars>>

\* the outcome of g = _estimate_cagr(hist, years_window=lookback_years)
Estimated(est) ==
    /\ h_est' = est
    /\ IF est.g.k = "ZeroDivisionError"
       THEN h_out' = [exc |-> "ZeroDivisionError", vals |-> <<>>] /\ h_pc' = "done"
       ELSE h_out' = h_out /\ h_pc' = "estimated"

\* hist = hist.dropna().sort_index(); g = _estimate_cagr(...)
EstimateCagr ==
    /\ h_pc = "call"
    /\ ~EmptyInput
    /\ Estimated(estimate_cagr(dropna(h_hist.obs), h_lookback))
    /\ UNCHANGED <<h_hist, h_future, h_lookback, dateVars, eventiVars, loadVars, simVars,
                   catVars, fcVars, mortVars>>

\* last_price = float(hist.iloc[-1]) (IndexError on a history left empty by
\* dropna), then the loop over future_index
Project ==
    /\ h_pc = "estimated"
    /\ h_out' = IF dropna(h_hist.obs) = <<>>
                THEN [exc |-> "IndexError", vals |-> <<>>]
                ELSE [exc |-> "none",
                      vals |-> Projection(dropna(h_hist.obs), h_est.g, h_future)]
    /\ h_pc' = "done"
    /\ UNCHANGED <<h_hist, h_future, h_lookback, h_est, dateVars, eventiVars, loadVars,
                   simVars, catVars, fcVars, mortVars>>

NextHist == ReturnEmpty \/ EstimateCagr \/ Project
SpecHist == InitHist /\ [][NextHist]_vars

\* the observations that carry a price
KnownPrices == IF h_hist.none THEN <<>> ELSE SelectSeq(h_hist.obs, LAMBDA o : ~o.nan)

\* C23: empty or undersized input is handled without raising: an empty
\* history or an empty future index gives an empty series; a history with
\* fewer than two priced observations gives the rate 0, and every projected
\* price is then the last known price.
C23_UndersizedInput ==
    /\ (h_pc = "done" /\ (h_hist.none \/ h_hist.obs = <<>> \/ h_future = <<>>))
          => h_out = [exc |-> "none", vals |-> <<>>]
    /\ (h_pc \in {"estimated", "done"} /\ Len(KnownPrices) < 2)
          => /\ h_out.exc = "none"
             /\ h_est.g = ZeroRate
    /\ (h_pc = "done" /\ h_future # <<>> /\ Len(KnownPrices) = 1)
          => /\ Len(h_out.vals) = Len(h_future)
             /\ \A i \in 1..Len(h_out.vals) :
                   h_out.vals[i] = [k |-> "price", v |-> KnownPrices[1].price]

\* C30: whenever the exponent is the lookback window (30 or more priced
\* observations in the window), the ratio is taken over that span: the
\* history reaches back to the cut lookback_years before its last
\* observation, and the first observation used is the first one on or after
\* the cut.
C30_ExponentIsElapsedTime ==
    (h_pc \in {"estimated", "done"} /\ h_est.windowed)
        => /\ h_est.years = h_lookback * YearUnits
           /\ h_est.w_last = dropna(h_hist.obs)[Len(dropna(h_hist.obs))].t
           /\ dropna(h_hist.obs)[1].t <= DateOffsetBack(h_est.w_last, h_lookback)
           /\ h_est.w_first >= DateOffsetBack(h_est.w_last, h_lookback)
           /\ \A i \in 1..Len(dropna(h_hist.obs)) :
                 dropna(h_hist.obs)[i].t >= DateOffsetBack(h_est.w_last, h_lookback)
                    => dropna(h_hist.obs)[i].t >= h_est.w_first

(***************************************************************************)
(* MortalityTableLoader.load_table                                         *)
(*                                                                         *)
(* A line of the file is the sequence of its ";"-separated fields (the     *)
(* blank line has none); a field is text.  "BOM" is U+FEFF as utf-8 reads  *)
(* it, "BOMJunk" the three characters latin-1 makes of its bytes.          *)
(***************************************************************************)
\* largest number of lines of the file
MaxFileLines == 2

\* encodings = ("utf-8-sig", "utf-8", "latin-1")
encodings == << "utf-8-sig", "utf-8", "latin-1" >>

\* the text with a mark put before its first field
Prefixed(lines, mark) ==
    IF lines = <<>> THEN << << <<mark>> >> >>
    ELSE IF lines[1] = <<>> THEN [lines EXCEPT ![1] = << <<mark>> >>]
    ELSE [lines EXCEPT ![1] = [@ EXCEPT ![1] = <<mark>> \o @]]

\* f.read().splitlines() under an encoding: utf-8-sig drops the BOM
Decoded(file, enc) ==
    IF ~file.bom \/ encodings[enc] = "utf-8-sig" THEN file.lines
    ELSE IF encodings[enc] = "utf-8" THEN Prefixed(file.lines, "BOM")
    ELSE Prefixed(file.lines, "BOMJunk")

\* except Exception as e: last_err = e, with the first error kept
KeepFirstError(last_err, e) == IF last_err = "none" THEN e ELSE last_err

\* except Exception as e: last_err = e
KeepError(last_err, e) == e

\* parts[0].replace(" ", "")
RemoveSpaces(t) == SelectSeq(t, LAMBDA c : c # " ")

\* parts[0].split()[0]: the first run of characters without a space
RECURSIVE FirstToken(_)
FirstToken(t) ==
    IF t = <<>> \/ Head(t) = " " THEN <<>> ELSE <<Head(t)>> \o FirstToken(Tail(t))

\* the characters of t before the first "."
RECURSIVE BeforeDot(_)
BeforeDot(t) == IF t = <<>> \/ Head(t) = "." THEN <<>> ELSE <<Head(t)>> \o BeforeDot(Tail(t))

\* parts[1].replace(",", ".")
CommaToDot(t) == [i \in 1..Len(t) |-> IF t[i] = "," THEN "." ELSE t[i]]

\* float(text) for text made of "-", digits and ".": [ok, neg, whole]
FloatOfUnsigned(t, neg) ==
    LET dots == { i \in 1..Len(t) : t[i] = "." }
    IN IF /\ Cardinality(dots) <= 1
          /\ \A i \in 1..Len(t) : t[i] \in Digits \cup {"."}
          /\ \E i \in 1..Len(t) : t[i] \in Digits
       THEN [ok |-> TRUE, neg |-> neg, whole |-> int(BeforeDot(t))]
       ELSE [ok |-> FALSE, neg |-> FALSE, whole |-> 0]
float(t) ==
    IF t # <<>> /\ Head(t) = "-" THEN FloatOfUnsigned(Tail(t), TRUE)
    ELSE FloatOfUnsigned(t, FALSE)

\* int(float(...)) rounding half up instead of truncating
int_of_float_rounded(f) ==
    IF f.neg THEN 0 - f.whole ELSE f.whole + 1

\* int(x) for a float x: truncation towards zero
int_of_float(f) == IF f.neg THEN 0 - f.whole ELSE f.whole

\* table[age] = years_left
Put(table, age, years_left, line) ==
    { e \in table : e.age # age } \cup { [age |-> age, years |-> years_left, line |-> line] }

\* the try block and the final test, for the stripped parts
StoreRow(table, i, parts) ==
    IF /\ IntOk(FirstToken(parts[1]))
       /\ float(CommaToDot(parts[2])).ok
       /\ int(FirstToken(parts[1])) >= 0
       /\ int_of_float(float(CommaToDot(parts[2]))) >= 0
    THEN Put(table, int(FirstToken(parts[1])),
             int_of_float(float(CommaToDot(parts[2]))), i + 1)
    ELSE table

\* the filters of the loop body, for the stripped parts of line i (0-based)
FilterRow(table, i, parts) ==
    IF Len(parts) < 2 THEN table
    ELSE IF i = 0 /\ ~isdigit(parts[1]) THEN table
    ELSE IF ~isdigit(RemoveSpaces(parts[1])) THEN table
    ELSE StoreRow(table, i, parts)

\* one iteration of "for i, raw in enumerate(lines)"
RowStep(table, i, line) ==
    IF line = <<>> THEN table
    ELSE FilterRow(table, i, [k \in 1..Len(line) |-> Strip(line[k])])

\* "Eta;Anni residui", "65;20", "70;15,5", "6 5;20", "invalid;row", "71;-3",
\* "72;-0,5", "73;1,2,3", "(superscript two);4", " 75 ; 7 ;x", "65;30", "-5;3",
\* "74" and the blank line
MortLines ==
    { <<>>,
      << <<"7", "4">> >>,
      << <<"Eta">>, <<"Anni", " ", "residui">> >>,
      << <<"6", "5">>, <<"2", "0">> >>,
      << <<"7", "0">>, <<"1", "5", ",", "5">> >>,
      << <<"6", " ", "5">>, <<"2", "0">> >>,
      << <<"invalid">>, <<"row">> >>,
      << <<"7", "1">>, <<"-", "3">> >>,
      << <<"7", "2">>, <<"-", "0", ",", "5">> >>,
      << <<"7", "3">>, <<"1", ",", "2", ",", "3">> >>,
      << <<"sup2">>, <<"4">> >>,
      << <<" ", "7", "5", " ">>, <<" ", "7", " ">>, <<"x">> >>,
      << <<"6", "5">>, <<"3", "0">> >>,
      << <<"-", "5">>, <<"3">> >> }
MortFiles == [bom : BOOLEAN, lines : SeqsUpTo(MortLines, MaxFileLines)]

InitMort ==
    /\ \/ m_path \in {"", "missing"} /\ m_file = [bom |-> FALSE, lines |-> <<>>] /\ m_fails = 0
       \/ m_path = "file" /\ m_file \in MortFiles /\ m_fails \in 0..Len(encodings)
    /\ m_pc = "call"
    /\ m_enc = 0 /\ m_last_err = "none" /\ m_lines = NoLines
    /\ m_i = 0 /\ m_table = {} /\ m_exc = "none"
    /\ IdleDate /\ IdleEventi /\ IdleLoad /\ IdleSim /\ IdleCat /\ IdleForecast /\ IdleHist

\* if not path or not os.path.exists(path): return table
NoFile ==
    /\ m_pc = "call"
    /\ m_path \in {"", "missing"}
    /\ m_pc' = "done"
    /\ UNCHANGED <<m_path, m_file, m_fails, m_enc, m_last_err, m_lines, m_i, m_table, m_exc,
                   dateVars, eventiVars, loadVars, simVars, catVars, fcVars, histVars>>

\* the path exists: the loop over encodings starts
StartReading ==
    /\ m_pc = "call"
    /\ m_path = "file"
    /\ m_enc' = 1
    /\ m_pc' = "open"
    /\ UNCHANGED <<m_path, m_file, m_fails, m_last_err, m_lines, m_i, m_table, m_exc,
                   dateVars, eventiVars, loadVars, simVars, catVars, fcVars, histVars>>

\* one attempt of the loop that raises: last_err = e, lines = None
AttemptFails ==
    /\ m_pc = "open"
    /\ m_enc <= Len(encodings)
    /\ m_enc <= m_fails
    /\ m_last_err' = KeepError(m_last_err, encodings[m_enc])
    /\ m_lines' = NoLines
    /\ m_enc' = m_enc + 1
    /\ UNCHANGED <<m_path, m_file, m_fails, m_pc, m_i, m_table, m_exc,
                   dateVars, eventiVars, loadVars, simVars, catVars, fcVars, histVars>>

\* one attempt of the loop that reads the file: lines = ..., break
AttemptReads ==
    /\ m_pc = "open"
    /\ m_enc <= Len(encodings)
    /\ m_enc > m_fails
    /\ m_lines' = [none |-> FALSE, enc |-> m_enc, rows |-> Decoded(m_file, m_enc)]
    /\ m_i' = 0
    /\ m_pc' = "parse"
    /\ UNCHANGED <<m_path, m_file, m_fails, m_enc, m_last_err, m_table, m_exc,
                   dateVars, eventiVars, loadVars, simVars, catVars, fcVars, histVars>>

\* if lines is None: raise last_err
RaiseLastError ==
    /\ m_pc = "open"
    /\ m_enc > Len(encodings)
    /\ m_lines.none
    /\ m_exc' = (IF m_last_err # "none" THEN m_last_err ELSE "RuntimeError")
    /\ m_pc' = "done"
    /\ UNCHANGED <<m_path, m_file, m_fails, m_enc, m_last_err, m_lines, m_i, m_table,
                   dateVars, eventiVars, loadVars, simVars, catVars, fcVars, histVars>>

\* one line of the file
ParseRow ==
    /\ m_pc = "parse"
    /\ m_i < Len(m_lines.rows)
    /\ m_table' = RowStep(m_table, m_i, m_lines.rows[m_i + 1])
    /\ m_i' = m_i + 1
    /\ UNCHANGED <<m_path, m_file, m_fails, m_pc, m_enc, m_last_err, m_lines, m_exc,
                   dateVars, eventiVars, loadVars, simVars, catVars, fcVars, histVars>>

\* return table
ReturnTable ==
    /\ m_pc = "parse"
    /\ m_i = Len(m_lines.rows)
    /\ m_pc' = "done"
    /\ UNCHANGED <<m_path, m_file, m_fails, m_enc, m_last_err, m_lines, m_i, m_table, m_exc,
                   dateVars, eventiVars, loadVars, simVars, catVars, fcVars, histVars>>

NextMort == NoFile \/ StartReading \/ AttemptFails \/ AttemptReads \/ RaiseLastError
               \/ ParseRow \/ ReturnTable
SpecMort == InitMort /\ [][NextMort]_vars

\* a field without its outer and embedded spaces
Unspaced(t) == SelectSeq(t, LAMBDA c : c # " ")
\* the whole part of an unsigned number written with a decimal comma or dot,
\* -1 when the text is no such number
WholePartUnsigned(u) ==
    LET seps == { i \in 1..Len(u) : u[i] \in {",", "."} }
        cut == IF seps = {} THEN Len(u) + 1 ELSE CHOOSE i \in seps : TRUE
    IN IF /\ Cardinality(seps) <= 1
          /\ cut > 1
          /\ \A i \in (1..Len(u)) \ seps : u[i] \in Digits
       THEN int(SubSeq(u, 1, cut - 1))
       ELSE -1
\* the number truncated towards zero ("-0,5" gives 0, "-3" gives -3); -1 when
\* the text is no number
WholePart(t) ==
    IF Unspaced(t) # <<>> /\ Head(Unspaced(t)) = "-"
    THEN (IF WholePartUnsigned(Tail(Unspaced(t))) = -1 THEN -1
          ELSE 0 - WholePartUnsigned(Tail(Unspaced(t))))
    ELSE WholePartUnsigned(Unspaced(t))

\* C24: the table has an entry only for lines with at least two fields whose
\* first field, embedded spaces removed, is made of digits only; its value is
\* the second field read with a decimal comma and truncated ("15,5" gives
\* 15); keys and values are integers >= 0; textual rows give no entry.
C24_DataRowsOnly ==
    (m_pc \in {"parse", "done"})
        => \A e \in m_table :
              LET line == m_lines.rows[e.line]
              IN /\ Len(line) >= 2
                 /\ Unspaced(line[1]) # <<>>
                 /\ \A i \in 1..Len(Unspaced(line[1])) : Unspaced(line[1])[i] \in Digits
                 /\ e.years = WholePart(line[2])
                 /\ e.age \in Nat /\ e.years \in Nat

\* a header line and "70;15,5": the table is {70: 15}
C24_Witness ==
    /\ m_pc = "done" /\ m_exc = "none"
    /\ Len(m_lines.rows) >= 2
    /\ m_lines.rows[1] = << <<"Eta">>, <<"Anni", " ", "residui">> >>
    /\ m_lines.rows[2] = << <<"7", "0">>, <<"1", "5", ",", "5">> >>
    /\ \E e \in m_table : e.age = 70 /\ e.years = 15 /\ e.line = 2

\* "invalid;row" and "6 5;20": only the second gives an entry, under key 6
C24_WitnessTextRow ==
    /\ m_pc = "done" /\ m_exc = "none"
    /\ Len(m_lines.rows) >= 2
    /\ m_lines.rows[1] = << <<"invalid">>, <<"row">> >>
    /\ m_lines.rows[2] = << <<"6", " ", "5">>, <<"2", "0">> >>
    /\ \E e \in m_table : e.age = 6 /\ e.years = 20 /\ e.line = 2
    /\ \A e \in m_table : e.line # 1

\* C25: no path or a missing file gives an empty table and no exception; for
\* an existing file utf-8-sig, utf-8 and latin-1 are tried in this order and
\* the first that reads is used; an exception is raised only when all three
\* fail, and it is the one of the last attempt.
C25_EncodingFallback ==
    /\ (m_pc = "done" /\ m_path \in {"", "missing"}) => (m_table = {} /\ m_exc = "none")
    /\ (m_pc \in {"parse", "done"} /\ m_path = "file" /\ m_fails < 3)
          => /\ m_exc = "none"
             /\ ~m_lines.none
             /\ m_lines.enc = m_fails + 1
             /\ m_lines.rows = Decoded(m_file, m_fails + 1)
    /\ (m_pc = "done" /\ m_path = "file" /\ m_fails = 3)
          => (m_exc = "latin-1" /\ m_table = {})
    /\ (m_exc # "none") => (m_fails = 3 /\ m_pc = "done")

\* utf-8-sig and utf-8 fail, latin-1 reads the file
C25_Witness ==
    /\ m_pc = "done" /\ m_exc = "none"
    /\ m_fails = 2 /\ m_lines.enc = 3 /\ m_last_err = "utf-8"
    /\ m_table # {}

\* all three attempts fail: the error of the latin-1 attempt is raised
C25_WitnessRaised ==
    /\ m_pc = "done" /\ m_exc = "latin-1" /\ m_fails = 3

\* C26: the first line of the file is the header: no entry of the table comes
\* from it, whatever it holds.
C26_FirstLineIsHeader ==
    \A e \in m_table : e.line # 1

====
